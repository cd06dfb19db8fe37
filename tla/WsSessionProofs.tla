-------------------------- MODULE WsSessionProofs ---------------------------
(***************************************************************************)
(* PayloadsAccounted and MessagesInOrder of a WebSocket session, for any   *)
(* frames, any number of them and any caps.                                *)
(*                                                                         *)
(* Everything follows from where the runner is in the message stream.      *)
(* Copied payloads have left it, the rest are in it in the order they were *)
(* logged, and a close ends it (Stream).  The runner's count never passes  *)
(* that place, and is that place until it is dropped with the session      *)
(* (Log, Counted); what is parked is the part of the stream behind it, and *)
(* what was added to the session's stream is the rest (Order).             *)
(***************************************************************************)
EXTENDS MCWsSession, WellFoundedInduction, TLAPS

\* The close is in the stream, or has been taken out of it.
CloseIn == msgs # <<>> /\ msgs[Len(msgs)].kind = "close"
CloseOut == wsClosing /\ msgs = <<>>

\* Payloads still in the stream, and those taken out of it.
Unread == IF CloseIn THEN Len(msgs) - 1 ELSE Len(msgs)
Copied == tracked - Unread

\* Messages taken out of it.
Seen == IF CloseOut THEN Copied + 1 ELSE Copied

Stream ==
    /\ CloseIsReportedLast
    /\ wsClosing /\ msgs # <<>> => msgs[Len(msgs)].kind = "close"
    /\ \A i \in DOMAIN msgs : msgs[i].kind # "close" => msgs[i].n = Copied + i
    /\ Unread <= tracked /\ tracked <= sent

Log ==
    /\ phase # "closed" => held = {p \in 1 .. tracked : p > acked}
    /\ phase = "closed" => held = {}
    /\ ackCount <= Seen /\ acked <= Seen

\* The runner's side is in step with the head: the handler comes with the
\* session, the session with the head, unless the runner has closed.
Serving == session = "open" \/ (session = "none" /\ head # "delivered")
Opened ==
    /\ phase = "http" => head = "none"
    /\ head # "delivered" => session = "none"
    /\ session = "none" => handler = "none"
    /\ session = "none" /\ head = "delivered" => phase = "closed" /\ msgs = <<>>

Counted ==
    Serving =>
        /\ ackCount = Seen
        /\ phase # "closed" /\ tracked > 0 => acked = ackCount

Order ==
    /\ ~beaten => lastAdded = added
    /\ ~beaten /\ gated => parked = <<>>
    /\ session = "none" => added = 0 /\ lastAdded = 0
    /\ Serving /\ session = "none" =>
          /\ Len(parked) = ackCount
          /\ \A i \in DOMAIN parked : parked[i].kind # "close" => parked[i].n = i
    /\ session = "open" /\ ~beaten => parked = <<>> /\ added = ackCount

Inv == TypeOK /\ Stream /\ Log /\ Opened /\ Counted
MCInv == Inv /\ beaten \in BOOLEAN /\ Order
-----------------------------------------------------------------------------
(* The stream, as a sequence.                                               *)

\* Appending to a sequence.
LEMMA Appended ==
  ASSUME NEW S, NEW s \in Seq(S), NEW e \in S
  PROVE /\ Append(s, e) \in Seq(S) /\ Len(Append(s, e)) = Len(s) + 1
        /\ DOMAIN Append(s, e) = 1 .. Len(s) + 1
        /\ Append(s, e)[Len(s) + 1] = e /\ Append(s, e) # <<>>
        /\ \A i \in 1 .. Len(s) : Append(s, e)[i] = s[i]
OBVIOUS

\* Taking its head off.
LEMMA Taken ==
  ASSUME NEW S, NEW s \in Seq(S), s # <<>>
  PROVE /\ Tail(s) \in Seq(S) /\ Head(s) \in S /\ Head(s) = s[1]
        /\ Len(s) >= 1 /\ Len(Tail(s)) = Len(s) - 1 /\ DOMAIN Tail(s) = 1 .. Len(s) - 1
        /\ \A i \in 1 .. Len(s) - 1 : Tail(s)[i] = s[i + 1]
OBVIOUS

\* What is known of the stream: it is a sequence of messages.
LEMMA StreamFacts ==
  ASSUME Inv
  PROVE /\ msgs \in Seq(Message) /\ Len(msgs) \in Nat /\ DOMAIN msgs = 1 .. Len(msgs)
        /\ msgs = <<>> <=> Len(msgs) = 0
        /\ tracked \in Nat /\ acked \in Nat /\ ackCount \in Nat /\ sent \in Nat
        /\ wsClosing \in BOOLEAN
        /\ CloseIn <=> wsClosing /\ msgs # <<>>
        /\ ~wsClosing => Unread = Len(msgs) /\ Seen = Copied
        /\ wsClosing /\ msgs # <<>> => Unread = Len(msgs) - 1 /\ Seen = Copied
        /\ wsClosing /\ msgs = <<>> => Unread = 0 /\ Seen = tracked + 1
        /\ Copied = tracked - Unread /\ Unread \in Nat /\ Copied \in Nat /\ Seen \in Nat
<1>1. /\ msgs \in Seq(Message) /\ tracked \in Nat /\ acked \in Nat /\ ackCount \in Nat /\ sent \in Nat
      /\ wsClosing \in BOOLEAN
  BY BoundsAssumption DEF Inv, TypeOK
<1>2. Len(msgs) \in Nat /\ DOMAIN msgs = 1 .. Len(msgs) /\ (msgs = <<>> <=> Len(msgs) = 0)
  BY <1>1
<1>3. CloseIn <=> wsClosing /\ msgs # <<>>
  BY <1>1, <1>2 DEF Inv, Stream, CloseIsReportedLast, CloseIn
<1>4. Unread \in Nat /\ Unread <= tracked
  BY <1>1, <1>2, <1>3 DEF Inv, Stream, Unread
<1>5. /\ ~wsClosing => Unread = Len(msgs)
      /\ wsClosing /\ msgs # <<>> => Unread = Len(msgs) - 1
      /\ wsClosing /\ msgs = <<>> => Unread = 0
  BY Zenon, <1>2, <1>3 DEF Unread
<1>6. Copied = tracked - Unread /\ Copied \in Nat
  BY <1>1, <1>4 DEF Copied
<1>7. (wsClosing /\ msgs = <<>> => Seen = Copied + 1) /\ (~(wsClosing /\ msgs = <<>>) => Seen = Copied)
  BY Zenon DEF Seen, CloseOut
<1> HIDE DEF CloseIn, Unread, Copied, Seen
<1>8. wsClosing /\ msgs = <<>> => Seen = tracked + 1
  BY <1>1, <1>5, <1>6, <1>7
<1>9. Seen \in Nat
  BY <1>6, <1>7
<1> QED BY Zenon, <1>1, <1>2, <1>3, <1>4, <1>5, <1>6, <1>7, <1>8, <1>9

\* Its numbers, alone.
LEMMA StreamNumbers ==
  ASSUME Inv
  PROVE /\ tracked \in Nat /\ acked \in Nat /\ ackCount \in Nat /\ sent \in Nat
        /\ Unread \in Nat /\ Copied \in Nat /\ Seen \in Nat /\ Copied = tracked - Unread
BY Zenon, StreamFacts

\* How far the runner has seen the stream, by whether it was closed.
LEMMA StreamSeen ==
  ASSUME Inv
  PROVE /\ ~wsClosing => Unread = Len(msgs) /\ Seen = Copied
        /\ wsClosing /\ Len(msgs) # 0 => Unread = Len(msgs) - 1 /\ Seen = Copied
        /\ wsClosing /\ Len(msgs) = 0 => Unread = 0 /\ Seen = tracked + 1
BY Zenon, StreamFacts

\* A number of a range is one of the range without its last, or that.
LEMMA LastOf == \A n \in Nat : \A i \in 1 .. n + 1 : i \in 1 .. n \/ i = n + 1
OBVIOUS


-----------------------------------------------------------------------------
(* What the engine does to the stream.                                      *)

\* The stream is left alone, or its session is reported closed, once.
Tells ==
    \/ UNCHANGED <<wsClosing, msgs>>
    \/ phase # "closed" /\ ~wsClosing /\ wsClosing' = TRUE /\ msgs' = Append(msgs, Close)

\* Either keeps what was copied and what was seen.
LEMMA TellKeeps ==
  ASSUME Inv, Tells, UNCHANGED <<logVars, ackCount>>
  PROVE Copied' = Copied /\ Seen' = Seen /\ Unread' = Unread
<1>1. CASE UNCHANGED <<wsClosing, msgs>>
  BY Zenon, <1>1 DEF Copied, Seen, Unread, CloseIn, CloseOut, logVars
<1>2. CASE ~wsClosing /\ wsClosing' = TRUE /\ msgs' = Append(msgs, Close)
  <2>1. Close \in Message BY Zenon DEF Close, Message
  <2>2. msgs' # <<>> /\ Len(msgs') = Len(msgs) + 1 /\ msgs'[Len(msgs')] = Close
    BY <1>2, <2>1, StreamFacts, Appended
  <2>3. CloseIn' /\ ~CloseOut' BY <2>2 DEF CloseIn, CloseOut, Close
  <2>4. Unread' = Len(msgs') - 1 BY Zenon, <2>3 DEF Unread
  <2>5. Unread' = Len(msgs) BY <2>2, <2>4, StreamFacts
  <2> QED BY Zenon, <1>2, <2>3, <2>5, StreamFacts DEF Copied, Seen, logVars
<1> QED BY Zenon, <1>1, <1>2 DEF Tells

\* And with it everything else, where the rest is left alone.
LEMMA TellStep ==
  ASSUME Inv, Tells, UNCHANGED <<logVars, ackCount, head, session, handler>>,
         sent' \in Nat, sent' >= sent,
         phase' = phase \/ (phase' \in {"ws", "closing"} /\ phase \in {"http", "ws"})
  PROVE (Stream /\ Log /\ Opened /\ Counted)'
<1>1. Copied' = Copied /\ Seen' = Seen /\ Unread' = Unread BY Zenon, TellKeeps
<1>2. Stream'
  <2>1. CASE UNCHANGED <<wsClosing, msgs>>
    BY <1>1, <2>1, StreamFacts DEF Inv, Stream, CloseIsReportedLast, logVars
  <2>2. CASE ~wsClosing /\ wsClosing' = TRUE /\ msgs' = Append(msgs, Close)
    <3>1. Close \in Message /\ Close.kind = "close" BY Zenon DEF Close, Message
    <3>2. /\ Len(msgs') = Len(msgs) + 1 /\ DOMAIN msgs' = 1 .. Len(msgs) + 1
          /\ msgs'[Len(msgs) + 1] = Close /\ \A i \in 1 .. Len(msgs) : msgs'[i] = msgs[i]
      BY <2>2, <3>1, StreamFacts, Appended
    <3>3. \A i \in 1 .. Len(msgs) : msgs[i].kind # "close" /\ msgs[i].n = Copied + i
      BY Zenon, <2>2, StreamFacts DEF Inv, Stream, CloseIsReportedLast
    <3>4. Len(msgs) \in Nat BY Zenon, StreamFacts
    <3>5. \A i \in DOMAIN msgs' : i \in 1 .. Len(msgs) \/ i = Len(msgs') BY Zenon, <3>2, <3>4, LastOf
    <3>6. \A i \in 1 .. Len(msgs) : msgs'[i].kind # "close" /\ msgs'[i].n = Copied' + i
      BY Zenon, <1>1, <3>2, <3>3
    <3>7. CloseIsReportedLast' BY Zenon, <2>2, <3>5, <3>6 DEF CloseIsReportedLast
    <3>8. Unread' <= tracked' /\ tracked' <= sent'
      <4>1. Unread <= tracked /\ tracked <= sent /\ tracked' = tracked BY Zenon DEF Inv, Stream, logVars
      <4> QED BY <1>1, <4>1, StreamNumbers
    <3>9. msgs'[Len(msgs')].kind = "close" BY Zenon, <3>1, <3>2
    <3> QED BY Zenon, <3>5, <3>6, <3>7, <3>8, <3>9 DEF Stream
  <2> QED BY Zenon, <2>1, <2>2 DEF Tells
<1>3. Log' BY Zenon, <1>1 DEF Inv, Log, logVars
<1>4. Opened' BY Zenon DEF Inv, Opened, Tells
<1>5. Counted' BY Zenon, <1>1 DEF Inv, Counted, Serving, logVars
<1> QED BY Zenon, <1>2, <1>3, <1>4, <1>5

-----------------------------------------------------------------------------
(* The engine's steps.                                                      *)

\* What a write may change, with its type.
WriteTypes ==
    {wsClosing, inMap, finishing} \subseteq BOOLEAN /\ pending \in Nat /\ msgs \in Seq(Message)

\* CloseAfter tells the runner.
LEMMA CloseAfterTells ==
  ASSUME Inv, phase # "closed", ~wsClosing, NEW n \in Nat, CloseAfter(n)
  PROVE Tells /\ WriteTypes'
<1>1. Tells BY Zenon DEF CloseAfter, Tells
<1>2. Append(msgs, Close) \in Seq(Message) BY Zenon, StreamFacts, Appended DEF Close, Message
<1>3. pending \in Nat BY Zenon DEF Inv, TypeOK
<1>4. {wsClosing', inMap', finishing'} \subseteq BOOLEAN /\ msgs' \in Seq(Message)
  BY Zenon, <1>2 DEF CloseAfter
<1>5. pending' \in Nat BY <1>3 DEF CloseAfter
<1> QED BY Zenon, <1>1, <1>4, <1>5 DEF WriteTypes

\* So does wsCloseConn, the first time.
LEMMA WsCloseConnTells ==
  ASSUME Inv, phase # "closed", WsCloseConn
  PROVE Tells /\ WriteTypes'
<1>1. CASE wsClosing BY Zenon, <1>1 DEF WsCloseConn, Tells, WriteTypes, Inv, TypeOK, writeVars
<1>2. CASE ~wsClosing BY Zenon, <1>2, CloseAfterTells DEF WsCloseConn
<1> QED BY Zenon, <1>1, <1>2

\* And writeAnswer, past the cap.
LEMMA WriteAnswerTells ==
  ASSUME Inv, phase # "closed", NEW n \in Nat, NEW b \in BOOLEAN, WriteAnswer(n, b)
  PROVE Tells /\ WriteTypes'
<1>1. CASE phase = "ws" /\ ~wsClosing /\ pending + n > MaxBuffer
  BY Zenon, <1>1, CloseAfterTells DEF WriteAnswer
<1>2. CASE ~(phase = "ws" /\ ~wsClosing /\ pending + n > MaxBuffer)
  <2>1. pending' = pending + n /\ finishing' = (finishing \/ b) /\ UNCHANGED <<wsClosing, inMap, msgs>>
    BY Zenon, <1>2 DEF WriteAnswer
  <2>2. pending \in Nat /\ finishing \in BOOLEAN /\ inMap \in BOOLEAN BY Zenon DEF Inv, TypeOK
  <2> QED BY <2>1, <2>2, StreamFacts DEF Tells, WriteTypes
<1> QED BY Zenon, <1>1, <1>2

\* A frame is one more sent.
LEMMA FrameSent ==
  ASSUME Inv, NEW f, ReadFrame(f)
  PROVE /\ sent' = sent + 1 /\ sent' \in 0 .. MaxFrames /\ sent' \in Nat /\ sent' >= sent
        /\ quiet' = "no" /\ phase = "ws"
<1>1. sent \in 0 .. MaxFrames /\ sent < MaxFrames /\ MaxFrames \in Nat
  BY Zenon, BoundsAssumption DEF Inv, TypeOK, ReadFrame
<1>2. sent' = sent + 1 /\ quiet' = "no" /\ phase = "ws" BY Zenon DEF ReadFrame, Read
<1> QED BY <1>1, <1>2

\* The types of the runner's variables, which the engine leaves alone.
RunnerTypes ==
    /\ session \in {"none", "open", "done"}
    /\ handler \in {"none", "gate", "running", "over"}
    /\ parked \in Seq(Message)
    /\ {ackCount, added, lastAdded} \subseteq Nat
    /\ waiting \in 0 .. MaxInbound /\ sends \in 0 .. MaxSends
LogTypes == tracked \in 0 .. MaxFrames /\ acked \in Nat /\ held \in SUBSET (1 .. tracked)
ReadTypes ==
    /\ sent \in 0 .. MaxFrames /\ fragments \in 0 .. MaxMsg /\ jammed \in BOOLEAN
    /\ quiet \in {"no", "half", "pinged", "full"}
EnvTypes == {running, silent, gated} \subseteq BOOLEAN
RestTypes ==
    /\ phase \in {"http", "ws", "closing", "closed"} /\ queue \in Seq({"data", "close"})
    /\ head \in {"none", "posted", "delivered"}

\* TypeOK, in these parts.
LEMMA TypesSplit ==
  /\ TypeOK <=> EnvTypes /\ WriteTypes /\ RestTypes /\ ReadTypes /\ LogTypes /\ RunnerTypes
  /\ TypeOK' <=> EnvTypes' /\ WriteTypes' /\ RestTypes' /\ ReadTypes' /\ LogTypes' /\ RunnerTypes'
BY Zenon DEF TypeOK, EnvTypes, WriteTypes, RestTypes, ReadTypes, LogTypes, RunnerTypes

\* What is left alone keeps its type.
LEMMA TypesKept ==
  ASSUME TypeOK
  PROVE /\ UNCHANGED envVars => EnvTypes'
        /\ UNCHANGED logVars => LogTypes'
        /\ UNCHANGED runnerVars => RunnerTypes'
        /\ UNCHANGED readVars => ReadTypes'
        /\ UNCHANGED <<wsClosing, inMap, writeVars, msgs>> => WriteTypes'
        /\ UNCHANGED <<phase, queue, head>> => RestTypes'
<1>1. EnvTypes /\ WriteTypes /\ RestTypes /\ ReadTypes /\ LogTypes /\ RunnerTypes BY Zenon, TypesSplit
<1>2. UNCHANGED envVars => EnvTypes' BY Zenon, <1>1 DEF EnvTypes, envVars
<1>3. UNCHANGED logVars => LogTypes' BY Zenon, <1>1 DEF LogTypes, logVars
<1>4. UNCHANGED runnerVars => RunnerTypes' BY Zenon, <1>1 DEF RunnerTypes, runnerVars, streamVars
<1>5. UNCHANGED readVars => ReadTypes' BY Zenon, <1>1 DEF ReadTypes, readVars
<1>6. UNCHANGED <<wsClosing, inMap, writeVars, msgs>> => WriteTypes'
  BY Zenon, <1>1 DEF WriteTypes, writeVars
<1>7. UNCHANGED <<phase, queue, head>> => RestTypes' BY Zenon, <1>1 DEF RestTypes
<1> QED BY Zenon, <1>2, <1>3, <1>4, <1>5, <1>6, <1>7

\* wsHandshake.
LEMMA HandshakeStep ==
  ASSUME Inv, Handshake PROVE Inv'
<1>1. TypeOK' 
  <2>1. TypeOK BY Zenon DEF Inv
  <2>2. WriteTypes' /\ RestTypes' BY <2>1 DEF Handshake, TypeOK, WriteTypes, RestTypes
  <2> QED BY Zenon, <2>1, <2>2, TypesKept, TypesSplit DEF Handshake, readVars
<1>2. Copied' = Copied /\ Seen' = Seen /\ Unread' = Unread
  BY Zenon DEF Handshake, Copied, Seen, Unread, CloseIn, CloseOut, logVars
<1>3. Stream' BY Zenon, <1>2 DEF Inv, Handshake, Stream, CloseIsReportedLast, logVars, readVars
<1>4. Log' BY Zenon, <1>2 DEF Inv, Handshake, Log, logVars, runnerVars
<1>5. Opened' BY Zenon DEF Inv, Handshake, Opened, runnerVars
<1>6. Counted' BY Zenon, <1>2 DEF Inv, Handshake, Opened, Counted, Serving, logVars, runnerVars
<1> QED BY Zenon, <1>1, <1>3, <1>4, <1>5, <1>6 DEF Inv

\* wsProcess: a frame that ends the session.
LEMMA ReadClosingStep ==
  ASSUME Inv, NEW f, ReadClosing(f) PROVE Inv'
<1>1. Tells /\ WriteTypes'
  BY Zenon, WsCloseConnTells, FrameSent DEF ReadClosing
<1>2. TypeOK'
  <2>1. TypeOK BY Zenon DEF Inv
  <2>2. ReadTypes' BY Zenon, <2>1, FrameSent DEF ReadClosing, TypeOK, ReadTypes
  <2> QED BY Zenon, <1>1, <2>1, <2>2, TypesKept, TypesSplit DEF ReadClosing, RestTypes
<1> QED BY Zenon, <1>1, <1>2, TellStep, FrameSent DEF ReadClosing, Inv, runnerVars

\* wsProcess: a ping.
LEMMA ReadPingStep ==
  ASSUME Inv, ReadPing PROVE Inv'
<1>1. Tells /\ WriteTypes'
  BY Zenon, WriteAnswerTells, FrameSent DEF ReadPing
<1>2. TypeOK'
  <2>1. TypeOK BY Zenon DEF Inv
  <2>2. ReadTypes' BY Zenon, <2>1, FrameSent DEF ReadPing, TypeOK, ReadTypes
  <2> QED BY Zenon, <1>1, <2>1, <2>2, TypesKept, TypesSplit DEF ReadPing
<1> QED BY Zenon, <1>1, <1>2, TellStep, FrameSent DEF ReadPing, Inv, runnerVars

\* A frame that changes only what is being read.
LEMMA ReadingStep ==
  ASSUME Inv, ReadTypes', sent' \in Nat, sent' >= sent,
         UNCHANGED <<envVars, phase, wsClosing, sockVars, logVars, head, msgs, runnerVars>>
  PROVE Inv'
<1>1. TypeOK' BY Zenon, TypesKept, TypesSplit DEF Inv, sockVars
<1>2. Tells BY Zenon DEF Tells
<1> QED BY Zenon, <1>1, <1>2, TellStep DEF Inv, runnerVars

\* wsProcess: a header that never parses.
LEMMA ReadUnparsedStep ==
  ASSUME Inv, ReadUnparsed PROVE Inv'
<1>1. ReadTypes' BY Zenon, FrameSent DEF Inv, TypeOK, ReadUnparsed, ReadTypes
<1> QED BY Zenon, <1>1, FrameSent, ReadingStep DEF ReadUnparsed

\* wsProcess: a fragment.
LEMMA ReadFragmentStep ==
  ASSUME Inv, NEW f, ReadFragment(f) PROVE Inv'
<1>1. fragments \in Nat /\ MaxMsg \in Nat \ {0} BY BoundsAssumption DEF Inv, TypeOK
<1>2. fragments + 1 <= MaxMsg
  BY <1>1 DEF ReadFragment, Closes, Unfinished, Starts, Continuations
<1>3. fragments' \in 0 .. MaxMsg BY <1>1, <1>2 DEF ReadFragment
<1>4. ReadTypes' BY Zenon, <1>3, FrameSent DEF Inv, TypeOK, ReadFragment, ReadTypes
<1> QED BY Zenon, <1>4, FrameSent, ReadingStep DEF ReadFragment

\* readCb: bytes that complete no frame.
LEMMA ReadPieceStep ==
  ASSUME Inv, ReadPiece PROVE Inv'
<1>1. ReadTypes' BY Zenon DEF Inv, TypeOK, ReadPiece, Read, ReadTypes
<1> QED BY <1>1, StreamFacts, ReadingStep DEF ReadPiece

\* The clock.
LEMMA TimePassesStep ==
  ASSUME Inv, TimePasses PROVE Inv'
<1>1. ReadTypes' BY Zenon DEF Inv, TypeOK, TimePasses, ReadTypes
<1> QED BY <1>1, StreamFacts, ReadingStep DEF TimePasses

\* wsProcess: a message is logged, and put behind the others.
LEMMA ReadMessageStep ==
  ASSUME Inv, NEW f, ReadMessage(f) PROVE Inv'
<1> DEFINE m == [kind |-> IF f = "badDeflated" THEN "undecodable" ELSE "data", n |-> tracked + 1]
<1>1. m \in Message /\ m.kind # "close" /\ m.n = tracked + 1 BY StreamNumbers DEF Message
<1>2. /\ ~wsClosing /\ wsClosing' = wsClosing /\ phase = "ws" /\ phase' = phase /\ sent' = sent + 1
      /\ tracked' = tracked + 1 /\ held' = held \cup {tracked + 1} /\ acked' = acked
      /\ UNCHANGED <<envVars, head, runnerVars, sockVars, jammed>> /\ fragments' = 0
  BY Zenon, FrameSent DEF ReadMessage, ReadFrame, Takes
<1>3. msgs' = Append(msgs, m) BY Zenon DEF ReadMessage
<1> HIDE DEF m
<1>4. /\ msgs' \in Seq(Message) /\ msgs' # <<>> /\ Len(msgs') = Len(msgs) + 1
      /\ DOMAIN msgs' = 1 .. Len(msgs) + 1 /\ msgs'[Len(msgs) + 1] = m
      /\ \A i \in 1 .. Len(msgs) : msgs'[i] = msgs[i]
  <2>1. msgs \in Seq(Message) /\ m \in Message BY Zenon, <1>1, StreamFacts
  <2>2. /\ Append(msgs, m) \in Seq(Message) /\ Append(msgs, m) # <<>>
        /\ Len(Append(msgs, m)) = Len(msgs) + 1 /\ DOMAIN Append(msgs, m) = 1 .. Len(msgs) + 1
        /\ Append(msgs, m)[Len(msgs) + 1] = m /\ \A i \in 1 .. Len(msgs) : Append(msgs, m)[i] = msgs[i]
    BY <2>1, Appended
  <2> QED BY Zenon, <1>3, <2>2
<1>5. Unread = Len(msgs) /\ Seen = Copied /\ Copied = tracked - Len(msgs) BY Zenon, <1>2, StreamFacts
<1>6. ~CloseIn' /\ ~CloseOut' BY Zenon, <1>1, <1>2, <1>4 DEF CloseIn, CloseOut
<1>7. Unread' = Len(msgs') BY Zenon, <1>6 DEF Unread
<1>8. Copied' = tracked' - Unread' /\ Seen' = Copied' BY Zenon, <1>6 DEF Copied, Seen
<1>9. Unread' = Len(msgs) + 1 /\ Copied' = Copied /\ Seen' = Seen
  <2>1. /\ tracked' = tracked + 1 /\ Unread' = Unread + 1 /\ Seen = Copied
        /\ Copied' = tracked' - Unread' /\ Seen' = Copied'
    BY Zenon, <1>2, <1>4, <1>5, <1>7, <1>8
  <2>2. Copied' = Copied /\ Seen' = Seen BY <2>1, StreamNumbers
  <2> QED BY Zenon, <1>5, <2>1, <2>2
<1>10. sent' \in 0 .. MaxFrames /\ tracked <= sent /\ MaxFrames \in Nat
  BY Zenon, FrameSent, BoundsAssumption DEF ReadMessage, Inv, Stream
<1>11. TypeOK'
  <2>1. TypeOK BY Zenon DEF Inv
  <2>2. ReadTypes' BY <1>2, <1>10, <2>1, BoundsAssumption, FrameSent DEF ReadMessage, TypeOK, ReadTypes
  <2>3. WriteTypes' BY Zenon, <1>2, <1>4, <2>1 DEF TypeOK, WriteTypes, sockVars, writeVars
  <2>4. tracked' \in 0 .. MaxFrames
    <3>1. tracked' = tracked + 1 /\ sent' = sent + 1 BY Zenon, <1>2
    <3> QED BY <1>10, <3>1, StreamNumbers
  <2>5. held \in SUBSET (1 .. tracked) BY Zenon, <2>1 DEF TypeOK
  <2>6. 1 .. tracked \subseteq 1 .. tracked' /\ tracked + 1 \in 1 .. tracked'
    <3>1. tracked' = tracked + 1 BY Zenon, <1>2
    <3> QED BY <3>1, StreamNumbers
  <2>7. held' \in SUBSET (1 .. tracked') BY Zenon, <1>2, <2>5, <2>6
  <2>8. LogTypes' BY Zenon, <1>2, <2>4, <2>7, StreamFacts DEF LogTypes
  <2> QED BY Zenon, <1>2, <2>1, <2>2, <2>3, <2>8, TypesKept, TypesSplit DEF sockVars
<1>12. Stream'
  <2>1. \A i \in 1 .. Len(msgs) : msgs[i].kind # "close" /\ msgs[i].n = Copied + i
    BY Zenon, <1>2, StreamFacts DEF Inv, Stream, CloseIsReportedLast
  <2>2. \A i \in DOMAIN msgs' : msgs'[i].kind # "close"
    <3> SUFFICES ASSUME NEW i \in 1 .. Len(msgs) + 1 PROVE msgs'[i].kind # "close" BY Zenon, <1>4
    <3>1. CASE i \in 1 .. Len(msgs) BY Zenon, <1>4, <2>1, <3>1
    <3>2. CASE i = Len(msgs) + 1 BY Zenon, <1>1, <1>4, <3>2
    <3> QED BY Zenon, <3>1, <3>2, StreamFacts, LastOf
  <2>3. m.n = Copied + (Len(msgs) + 1)
    <3>1. tracked + 1 = Copied + (Unread + 1) BY StreamNumbers
    <3> QED BY Zenon, <1>1, <1>5, <3>1
  <2>4. \A i \in 1 .. Len(msgs) : msgs'[i].n = Copied + i BY Zenon, <1>4, <2>1
  <2>5. \A i \in 1 .. Len(msgs) + 1 : msgs'[i].n = Copied + i
    <3> TAKE i \in 1 .. Len(msgs) + 1
    <3>1. CASE i \in 1 .. Len(msgs) BY Zenon, <2>4, <3>1
    <3>2. CASE i = Len(msgs) + 1
      <4>1. msgs'[i] = m BY Zenon, <1>4, <3>2
      <4> QED BY Zenon, <2>3, <3>2, <4>1
    <3> QED BY Zenon, <3>1, <3>2, StreamFacts, LastOf
  <2>6. Unread' <= tracked' /\ tracked' <= sent'
    <3>1. /\ tracked' = tracked + 1 /\ sent' = sent + 1 /\ Unread' = Unread + 1
          /\ Unread <= tracked /\ tracked <= sent
      BY Zenon, <1>2, <1>5, <1>9 DEF Inv, Stream
    <3> QED BY <3>1, StreamNumbers
  <2> QED BY Zenon, <1>2, <1>4, <1>9, <2>2, <2>5, <2>6 DEF Stream, CloseIsReportedLast
<1>13. Log'
  <2>1. held = {p \in 1 .. tracked : p > acked} BY Zenon, <1>2 DEF Inv, Log
  <2>2. acked <= tracked
    <3>1. acked <= Seen /\ Seen = Copied BY Zenon, <1>5 DEF Inv, Log
    <3> QED BY <3>1, StreamNumbers
  <2>3. held' = {p \in 1 .. tracked' : p > acked'}
    <3>1. tracked' = tracked + 1 /\ held' = held \cup {tracked + 1} /\ acked' = acked BY Zenon, <1>2
    <3> QED BY <2>1, <2>2, <3>1, StreamNumbers
  <2> QED BY Zenon, <1>2, <1>9, <2>3 DEF Inv, Log, runnerVars
<1>14. Opened' BY Zenon, <1>2 DEF Inv, Opened, runnerVars
<1>15. Counted'
  <2>1. ASSUME Serving PROVE ackCount = Seen /\ acked = ackCount
    <3>1. ackCount = Seen /\ (tracked > 0 => acked = ackCount) BY Zenon, <1>2, <2>1 DEF Inv, Counted
    <3>2. CASE tracked = 0
      <4>1. ackCount = Seen /\ acked <= Seen /\ Seen = Copied BY Zenon, <1>5, <3>1 DEF Inv, Log
      <4> QED BY <3>2, <4>1, StreamNumbers
    <3> QED BY <3>1, <3>2, StreamNumbers
  <2> QED BY Zenon, <1>2, <1>9, <2>1 DEF Counted, Serving, runnerVars
<1> QED BY Zenon, <1>11, <1>12, <1>13, <1>14, <1>15 DEF Inv

\* A step of the engine that may change the socket, its writes and its phase.
LEMMA SocketStep ==
  ASSUME Inv, Tells, WriteTypes', RestTypes', ReadTypes', sent' = sent,
         UNCHANGED <<envVars, logVars, head, runnerVars>>,
         phase' = phase \/ (phase' \in {"ws", "closing"} /\ phase \in {"http", "ws"})
  PROVE Inv'
<1>1. TypeOK' BY Zenon, TypesKept, TypesSplit DEF Inv
<1> QED BY <1>1, StreamFacts, TellStep DEF Inv, runnerVars

\* wsHandshake, refused.
LEMMA RefuseStep ==
  ASSUME Inv, RefuseHandshake PROVE Inv'
<1>1. TypeOK BY Zenon DEF Inv
<1>2. WriteTypes' BY SMTT(30), <1>1 DEF RefuseHandshake, TypeOK, WriteTypes
<1>3. Tells BY Zenon DEF RefuseHandshake, Tells
<1> QED BY Zenon, <1>1, <1>2, <1>3, TypesKept, SocketStep DEF RefuseHandshake, readVars

\* uv_close, wherever it is called.
LEMMA UvCloseStep ==
  ASSUME Inv, Open, UvClose, queue' \in Seq({"data", "close"}) PROVE Inv'
<1>1. TypeOK BY Zenon DEF Inv
<1>2. WriteTypes' BY Zenon, <1>1 DEF UvClose, TypeOK, WriteTypes
<1>3. RestTypes' BY Zenon, <1>1 DEF UvClose, TypeOK, RestTypes
<1>4. Tells BY Zenon DEF UvClose, Tells
<1> QED BY Zenon, <1>1, <1>2, <1>3, <1>4, TypesKept, SocketStep DEF UvClose, Open, readVars

\* onWrite: a frame lands.
LEMMA LandedStep ==
  ASSUME Inv, Landed PROVE Inv'
<1>1. TypeOK BY Zenon DEF Inv
<1>2. CASE UvClose BY Zenon, <1>1, <1>2, UvCloseStep DEF Landed, TypeOK
<1>3. CASE ~UvClose
  <2>1. /\ pending > 0 /\ pending' = pending - 1 /\ finishing' = finishing /\ queue' = queue
        /\ UNCHANGED <<envVars, phase, wsClosing, readVars, inMap, logVars, head, msgs, runnerVars>>
    BY Zenon, <1>3 DEF Landed
  <2>2. WriteTypes' BY <1>1, <2>1 DEF TypeOK, WriteTypes
  <2>3. Tells BY Zenon, <2>1 DEF Tells
  <2> QED BY Zenon, <1>1, <2>1, <2>2, <2>3, TypesKept, SocketStep DEF readVars
<1> QED BY Zenon, <1>2, <1>3

\* onAsync: what is queued goes out.
LEMMA OnAsyncStep ==
  ASSUME Inv, OnAsync PROVE Inv'
<1>1. TypeOK BY Zenon DEF Inv
<1>2. Len(queue) \in Nat /\ (queue[Len(queue)] = "close") \in BOOLEAN BY <1>1 DEF TypeOK
<1>3. Tells /\ WriteTypes'
  <2>1. CASE Open BY Zenon, <1>2, <2>1, WriteAnswerTells DEF OnAsync, Open
  <2>2. CASE ~Open
    <3>1. UNCHANGED <<wsClosing, inMap, msgs, writeVars>> BY Zenon, <2>2 DEF OnAsync
    <3> QED BY Zenon, <1>1, <3>1, TypesKept DEF Tells
  <2> QED BY Zenon, <2>1, <2>2
<1>4. RestTypes' BY <1>1 DEF OnAsync, TypeOK, RestTypes
<1> QED BY Zenon, <1>1, <1>3, <1>4, TypesKept, SocketStep DEF OnAsync, readVars

\* onSweep: the age of a session.
LEMMA SweepAgeStep ==
  ASSUME Inv, SweepAge PROVE Inv'
<1>1. TypeOK BY Zenon DEF Inv
<1>2. Tells /\ WriteTypes' BY Zenon, WsCloseConnTells DEF SweepAge
<1> QED BY Zenon, <1>1, <1>2, TypesKept, SocketStep DEF SweepAge, readVars

\* onSweep: its ping.
LEMMA SweepPingStep ==
  ASSUME Inv, SweepPing PROVE Inv'
<1>1. TypeOK BY Zenon DEF Inv
<1>2. Tells /\ WriteTypes' BY Zenon, WriteAnswerTells DEF SweepPing
<1>3. ReadTypes' BY Zenon, <1>1 DEF SweepPing, TypeOK, ReadTypes
<1> QED BY Zenon, <1>1, <1>2, <1>3, TypesKept, SocketStep DEF SweepPing

\* onCloseConn: the log goes with the connection.
LEMMA OnCloseConnStep ==
  ASSUME Inv, OnCloseConn PROVE Inv'
<1>1. TypeOK BY Zenon DEF Inv
<1>2. LogTypes' BY Zenon, <1>1 DEF OnCloseConn, TypeOK, LogTypes
<1>3. ReadTypes'
  <2>1. MaxMsg \in Nat BY Zenon, BoundsAssumption
  <2>2. sent' \in 0 .. MaxFrames /\ fragments' = 0 /\ jammed' = FALSE /\ quiet' = "no"
    BY Zenon, <1>1 DEF OnCloseConn, TypeOK
  <2>3. fragments' \in 0 .. MaxMsg BY <2>1, <2>2
  <2> QED BY Zenon, <2>2, <2>3 DEF ReadTypes
<1>4. WriteTypes' /\ RestTypes' BY Zenon, <1>1 DEF OnCloseConn, TypeOK, WriteTypes, RestTypes, writeVars
<1>5. TypeOK' BY Zenon, <1>1, <1>2, <1>3, <1>4, TypesKept, TypesSplit DEF OnCloseConn
<1>6. Copied' = Copied /\ Seen' = Seen /\ Unread' = Unread
  BY Zenon DEF OnCloseConn, Copied, Seen, Unread, CloseIn, CloseOut
<1>7. Stream' BY Zenon, <1>6 DEF Inv, OnCloseConn, Stream, CloseIsReportedLast
<1>8. Log' BY <1>6, StreamFacts DEF Inv, OnCloseConn, Log, runnerVars
<1>9. Opened' BY Zenon DEF Inv, OnCloseConn, Opened, runnerVars
<1>10. Counted' BY Zenon, <1>6 DEF Inv, OnCloseConn, Counted, Serving, runnerVars
<1> QED BY Zenon, <1>5, <1>7, <1>8, <1>9, <1>10 DEF Inv

\* stop() is called; the peer vanishes.
LEMMA EnvironmentStep ==
  ASSUME Inv, Stop \/ PeerVanishes PROVE Inv'
<1>1. TypeOK BY Zenon DEF Inv
<1>2. EnvTypes' BY Zenon, <1>1 DEF Stop, PeerVanishes, TypeOK, EnvTypes
<1>3. TypeOK' BY Zenon, <1>1, <1>2, TypesKept, TypesSplit DEF Stop, PeerVanishes, sockVars
<1>4. Tells BY Zenon DEF Stop, PeerVanishes, Tells
<1> QED BY <1>3, <1>4, TellStep, StreamFacts DEF Stop, PeerVanishes, Inv, readVars, runnerVars

\* Every step of the engine.
LEMMA EngineStep ==
  ASSUME Inv, EngineNext PROVE Inv'
<1>1. queue \in Seq({"data", "close"}) /\ <<>> \in Seq({"data", "close"}) BY DEF Inv, TypeOK
<1>2. CASE \E f \in Frames : ReadClosing(f) \/ ReadFragment(f) \/ ReadMessage(f)
  BY Zenon, <1>2, ReadClosingStep, ReadFragmentStep, ReadMessageStep
<1>3. CASE ReadEof \/ WriteFails \/ OnStopping \/ SweepWriteTimeout
  BY Zenon, <1>1, <1>3, UvCloseStep DEF ReadEof, WriteFails, OnStopping, SweepWriteTimeout
<1>4. CASE SweepAge \/ SweepIdle BY Zenon, <1>4, SweepAgeStep DEF SweepIdle
<1>5. CASE Stop \/ PeerVanishes BY Zenon, <1>5, EnvironmentStep
<1> QED BY Zenon, <1>2, <1>3, <1>4, <1>5, HandshakeStep, RefuseStep, ReadPingStep, ReadUnparsedStep,
           ReadPieceStep, LandedStep, OnAsyncStep, SweepPingStep, TimePassesStep, OnCloseConnStep
        DEF EngineNext

-----------------------------------------------------------------------------
(* The runner's steps.                                                      *)

\* A set of numbers has a least one.
LEMMA Least ==
  ASSUME NEW S \in SUBSET Nat, S # {}
  PROVE Min(S) \in S /\ \A y \in S : Min(S) <= y
<1> DEFINE R == OpToRel(<, Nat)
<1>1. IsWellFoundedOn(R, Nat) BY Zenon, NatLessThanWellFounded
<1>2. PICK x \in S : \A y \in S : ~ (<<y, x>> \in R) 
  <2> HIDE DEF R
  <2> QED BY Zenon, <1>1, WFMin
<1>3. \A y \in S : x <= y
  <2> TAKE y \in S
  <2>1. ~ (y < x) BY Zenon, <1>2 DEF OpToRel
  <2> QED BY <2>1
<1>4. \E z \in S : \A y \in S : z <= y BY Zenon, <1>3
<1> QED BY Zenon, <1>4 DEF Min

\* _deliverWs adds what is before the first message that ends the session:
\* payloads, and no more than may wait.
LEMMA AddedFacts ==
  ASSUME Inv, NEW ms \in Seq(Message)
  PROVE /\ Added(ms) \in 0 .. Len(ms) /\ waiting + Added(ms) \in 0 .. MaxInbound
        /\ \A i \in 1 .. Added(ms) : ms[i].kind = "data"
        /\ Stops(ms) = {} => Added(ms) = Len(ms)
<1>1. Len(ms) \in Nat /\ DOMAIN ms = 1 .. Len(ms) OBVIOUS
<1>2. waiting \in 0 .. MaxInbound /\ MaxInbound \in Nat BY Zenon, BoundsAssumption DEF Inv, TypeOK
<1>3. Added(ms) \in 0 .. Len(ms) /\ \A i \in 1 .. Added(ms) : i \in DOMAIN ms /\ i \notin Stops(ms)
  <2>1. CASE Stops(ms) = {} BY <1>1, <2>1 DEF Added
  <2>2. CASE Stops(ms) # {}
    <3>1. Stops(ms) \subseteq 1 .. Len(ms) BY Zenon, <1>1 DEF Stops
    <3>2. Stops(ms) \in SUBSET Nat BY <3>1
    <3>3. Min(Stops(ms)) \in Stops(ms) /\ \A y \in Stops(ms) : Min(Stops(ms)) <= y
      BY Zenon, <2>2, <3>2, Least
    <3>4. Added(ms) = Min(Stops(ms)) - 1 BY Zenon, <2>2 DEF Added
    <3>5. Min(Stops(ms)) \in 1 .. Len(ms) BY Zenon, <3>1, <3>3
    <3>6. Added(ms) \in 0 .. Len(ms) BY <1>1, <3>4, <3>5
    <3>7. \A i \in 1 .. Added(ms) : i < Min(Stops(ms)) /\ i \in 1 .. Len(ms) BY <1>1, <3>4, <3>5
    <3>8. \A i \in 1 .. Added(ms) : i \notin Stops(ms) BY <3>2, <3>3, <3>7
    <3> QED BY Zenon, <1>1, <3>6, <3>7, <3>8
  <2> QED BY Zenon, <2>1, <2>2
<1>4. \A i \in 1 .. Added(ms) : ms[i].kind = "data" /\ waiting + i <= MaxInbound
  BY <1>1, <1>2, <1>3 DEF Stops
<1>5. waiting + Added(ms) \in 0 .. MaxInbound
  <2>1. CASE Added(ms) = 0 BY <1>2, <2>1
  <2>2. CASE Added(ms) # 0 BY <1>1, <1>2, <1>3, <1>4, <2>2
  <2> QED BY Zenon, <2>1, <2>2
<1>6. Stops(ms) = {} => Added(ms) = Len(ms) BY Zenon DEF Added
<1> QED BY Zenon, <1>3, <1>4, <1>5, <1>6

\* _finish ends the session; its count is dropped, or kept when it had ended.
LEMMA FinishFacts ==
  ASSUME Inv, NEW acks \in Nat, Finish(acks)
  PROVE /\ session' = "done" /\ ackCount' \in Nat /\ ackCount' <= acks
        /\ inMap' \in BOOLEAN /\ queue' \in Seq({"data", "close"})
<1>1. inMap \in BOOLEAN /\ queue \in Seq({"data", "close"}) BY Zenon DEF Inv, TypeOK
<1>2. session' = "done" /\ ackCount' \in {acks, 0} BY Zenon DEF Finish
<1>3. inMap' \in {inMap, FALSE} /\ queue' \in {queue, Append(queue, "close")} BY Zenon DEF Finish
<1>4. Append(queue, "close") \in Seq({"data", "close"}) BY Zenon, <1>1, Appended
<1>5. ackCount' \in Nat /\ ackCount' <= acks BY <1>2
<1>6. inMap' \in BOOLEAN /\ queue' \in Seq({"data", "close"}) BY Zenon, <1>1, <1>3, <1>4
<1> QED BY Zenon, <1>2, <1>5, <1>6

\* _deliverWs leaves the session open, with everything added, or ended.
LEMMA DeliverFacts ==
  ASSUME Inv, NEW ms \in Seq(Message), NEW acks \in Nat, Deliver(ms, acks)
  PROVE /\ session' \in {"open", "done"} /\ ackCount' \in Nat /\ ackCount' <= acks
        /\ session' = "open" => ackCount' = acks /\ added' = added + Len(ms)
        /\ inMap' \in BOOLEAN /\ queue' \in Seq({"data", "close"})
        /\ added' \in Nat /\ lastAdded' \in Nat /\ waiting' \in 0 .. MaxInbound
        /\ added' = added + Added(ms)
        /\ lastAdded' = IF Added(ms) = 0 THEN lastAdded ELSE ms[Added(ms)].n
<1>1. /\ inMap \in BOOLEAN /\ queue \in Seq({"data", "close"}) /\ added \in Nat /\ lastAdded \in Nat
      /\ waiting \in 0 .. MaxInbound
  BY Zenon DEF Inv, TypeOK
<1>2. /\ Added(ms) \in 0 .. Len(ms) /\ waiting + Added(ms) \in 0 .. MaxInbound /\ Len(ms) \in Nat
      /\ Stops(ms) = {} => Added(ms) = Len(ms)
  BY AddedFacts
<1>3. /\ added' = added + Added(ms) /\ waiting' = waiting + Added(ms)
      /\ lastAdded' = IF Added(ms) = 0 THEN lastAdded ELSE ms[Added(ms)].n
  BY Zenon DEF Deliver
<1>4. added' \in Nat /\ waiting' \in 0 .. MaxInbound BY SMTT(30), <1>1, <1>2, <1>3
<1>5. lastAdded' \in Nat
  <2>1. CASE Added(ms) = 0 BY Zenon, <1>1, <1>3, <2>1
  <2>2. CASE Added(ms) # 0
    <3>1. Added(ms) \in 1 .. Len(ms) BY <1>2, <2>2
    <3>2. ms[Added(ms)] \in Message BY <3>1
    <3> QED BY Zenon, <1>3, <2>2, <3>2 DEF Message
  <2> QED BY Zenon, <2>1, <2>2
<1>6. CASE Stops(ms) # {}
  <2>1. Finish(acks) BY Zenon, <1>6 DEF Deliver
  <2> QED BY Zenon, <1>3, <1>4, <1>5, <2>1, FinishFacts
<1>7. CASE Stops(ms) = {}
  <2>1. session' = "open" /\ ackCount' = acks /\ UNCHANGED <<inMap, queue>> BY Zenon, <1>7 DEF Deliver
  <2>2. added' = added + Len(ms) BY Zenon, <1>2, <1>3, <1>7
  <2> QED BY <1>1, <1>3, <1>4, <1>5, <2>1, <2>2
<1> QED BY Zenon, <1>6, <1>7

\* A step of the runner that takes nothing out of the stream.
LEMMA RunnerKeeps ==
  ASSUME Inv, UNCHANGED <<phase, wsClosing, sent, logVars, msgs>>,
         ackCount' \in Nat, ackCount' <= ackCount,
         Serving' => Serving /\ ackCount' = ackCount
  PROVE (Stream /\ Log /\ Counted)'
<1>1. Copied' = Copied /\ Seen' = Seen /\ Unread' = Unread
  BY Zenon DEF Copied, Seen, Unread, CloseIn, CloseOut, logVars
<1>2. Stream' BY Zenon, <1>1 DEF Inv, Stream, CloseIsReportedLast, logVars
<1>3. Log'
  <2>1. ackCount <= Seen BY Zenon DEF Inv, Log
  <2>2. ackCount' <= Seen BY <2>1, StreamNumbers
  <2> QED BY Zenon, <1>1, <2>2 DEF Inv, Log, logVars
<1>4. Counted' BY Zenon, <1>1 DEF Inv, Counted, logVars
<1> QED BY Zenon, <1>2, <1>3, <1>4

\* _runWs.
LEMMA RunWsFacts ==
  ASSUME Inv, RunWs, session # "none" \/ head = "posted"
  PROVE /\ session' \in {"open", "done"} /\ ackCount' \in Nat /\ ackCount' <= ackCount
        /\ session' = "open" => session # "done" /\ ackCount' = ackCount
        /\ inMap' \in BOOLEAN /\ queue' \in Seq({"data", "close"})
        /\ added' \in Nat /\ lastAdded' \in Nat /\ waiting' \in 0 .. MaxInbound
        /\ parked' = <<>> /\ handler' = "running"
<1>1. ackCount \in Nat /\ parked \in Seq(Message) BY Zenon DEF Inv, TypeOK
<1>2. CASE session = "done"
  BY <1>1, <1>2 DEF RunWs, streamVars, Inv, TypeOK
<1>3. CASE session # "done"
  BY Zenon, <1>1, <1>3, DeliverFacts DEF RunWs
<1> QED BY Zenon, <1>2, <1>3

\* _dispatchWs: the head is delivered.
LEMMA DispatchStep ==
  ASSUME Inv, DispatchWs PROVE Inv'
<1>1. TypeOK /\ head = "posted" /\ session = "none" /\ Serving
  BY Zenon DEF Inv, DispatchWs, Opened, Serving
<1>2. /\ session' \in {"open", "done"} /\ ackCount' \in Nat /\ ackCount' <= ackCount
      /\ session' = "open" => ackCount' = ackCount
      /\ inMap' \in BOOLEAN /\ queue' \in Seq({"data", "close"})
      /\ added' \in Nat /\ lastAdded' \in Nat /\ waiting' \in 0 .. MaxInbound
      /\ parked' \in Seq(Message) /\ handler' \in {"gate", "running"}
  <2>1. CASE gated BY <1>1, <2>1 DEF DispatchWs, streamVars, TypeOK
  <2>2. CASE ~gated
    <3>1. RunWs BY Zenon, <2>2 DEF DispatchWs
    <3>2. <<>> \in Seq(Message) OBVIOUS
    <3> QED BY Zenon, <1>1, <3>1, <3>2, RunWsFacts
  <2> QED BY Zenon, <2>1, <2>2
<1>3. TypeOK'
  <2>1. RunnerTypes' BY Zenon, <1>1, <1>2 DEF DispatchWs, RunnerTypes, TypeOK
  <2>2. WriteTypes' BY Zenon, <1>1, <1>2 DEF DispatchWs, WriteTypes, TypeOK, writeVars
  <2>3. RestTypes' BY Zenon, <1>1, <1>2 DEF DispatchWs, RestTypes, TypeOK
  <2> QED BY Zenon, <1>1, <2>1, <2>2, <2>3, TypesKept, TypesSplit DEF DispatchWs
<1>4. (Stream /\ Log /\ Counted)'
  BY Zenon, <1>1, <1>2, RunnerKeeps DEF DispatchWs, Serving, readVars
<1>5. Opened' BY Zenon, <1>1, <1>2 DEF Inv, Opened, DispatchWs
<1> QED BY Zenon, <1>3, <1>4, <1>5 DEF Inv

\* The gate's middleware lets the handshake pass.
LEMMA GateAcceptsStep ==
  ASSUME Inv, GateAccepts PROVE Inv'
<1>1. TypeOK /\ session # "none" /\ head = "delivered" BY Zenon DEF Inv, TypeOK, GateAccepts, Opened
<1>2. /\ session' \in {"open", "done"} /\ ackCount' \in Nat /\ ackCount' <= ackCount
      /\ session' = "open" => session # "done" /\ ackCount' = ackCount
      /\ inMap' \in BOOLEAN /\ queue' \in Seq({"data", "close"})
      /\ added' \in Nat /\ lastAdded' \in Nat /\ waiting' \in 0 .. MaxInbound
      /\ parked' = <<>> /\ handler' = "running"
  BY Zenon, <1>1, RunWsFacts DEF GateAccepts
<1>3. TypeOK'
  <2>1. RunnerTypes' BY <1>1, <1>2 DEF GateAccepts, RunnerTypes, TypeOK
  <2>2. WriteTypes' BY Zenon, <1>1, <1>2 DEF GateAccepts, WriteTypes, TypeOK, writeVars
  <2>3. RestTypes' BY Zenon, <1>1, <1>2 DEF GateAccepts, RestTypes, TypeOK
  <2> QED BY Zenon, <1>1, <2>1, <2>2, <2>3, TypesKept, TypesSplit DEF GateAccepts
<1>4. Serving' => Serving /\ ackCount' = ackCount
  BY Zenon, <1>1, <1>2 DEF GateAccepts, Serving, TypeOK
<1>5. (Stream /\ Log /\ Counted)' BY Zenon, <1>2, <1>4, RunnerKeeps DEF GateAccepts, readVars
<1>6. Opened' BY Zenon, <1>1, <1>2 DEF Inv, Opened, GateAccepts
<1> QED BY Zenon, <1>3, <1>5, <1>6 DEF Inv

\* The gate rejects, or the handler returns: the session is finished.
LEMMA FinishStep ==
  ASSUME Inv, GateRejects \/ HandlerReturns PROVE Inv'
<1>1. /\ TypeOK /\ session # "none" /\ head = "delivered" /\ ackCount \in Nat
      /\ Finish(ackCount) /\ handler' = "over" /\ parked' \in {parked, <<>>}
      /\ UNCHANGED <<envVars, phase, wsClosing, readVars, writeVars, logVars, head, msgs, streamVars, sends>>
  BY Zenon DEF Inv, TypeOK, GateRejects, HandlerReturns, Opened
<1>2. /\ session' = "done" /\ ackCount' \in Nat /\ ackCount' <= ackCount
      /\ inMap' \in BOOLEAN /\ queue' \in Seq({"data", "close"})
  BY Zenon, <1>1, FinishFacts
<1>3. TypeOK'
  <2>1. parked \in Seq(Message) /\ <<>> \in Seq(Message) BY <1>1 DEF TypeOK
  <2>2. parked' \in Seq(Message) BY Zenon, <1>1, <2>1
  <2>3. RunnerTypes' BY Zenon, <1>1, <1>2, <2>2 DEF RunnerTypes, TypeOK, streamVars
  <2>4. WriteTypes' BY Zenon, <1>1, <1>2 DEF WriteTypes, TypeOK, writeVars
  <2>5. RestTypes' BY Zenon, <1>1, <1>2 DEF RestTypes, TypeOK
  <2> QED BY Zenon, <1>1, <2>3, <2>4, <2>5, TypesKept, TypesSplit
<1>4. (Stream /\ Log /\ Counted)' BY Zenon, <1>1, <1>2, RunnerKeeps DEF Serving, readVars
<1>5. Opened' BY Zenon, <1>1, <1>2 DEF Inv, Opened
<1> QED BY Zenon, <1>3, <1>4, <1>5 DEF Inv

\* The handler takes a message, or sends one.
LEMMA HandlerStep ==
  ASSUME Inv, HandlerTakes \/ HandlerSends PROVE Inv'
<1>1. TypeOK /\ queue \in Seq({"data", "close"}) BY Zenon DEF Inv, TypeOK
<1>2. RunnerTypes'
  <2>1. CASE HandlerTakes
    <3>1. waiting \in 0 .. MaxInbound /\ MaxInbound \in Nat BY Zenon, <1>1, BoundsAssumption DEF TypeOK
    <3>2. waiting' \in 0 .. MaxInbound BY <2>1, <3>1 DEF HandlerTakes
    <3> QED BY Zenon, <1>1, <2>1, <3>2 DEF HandlerTakes, RunnerTypes, TypeOK
  <2>2. CASE HandlerSends
    <3>1. sends \in 0 .. MaxSends /\ MaxSends \in Nat BY ZenonT(60), <1>1, BoundsAssumption DEF TypeOK
    <3>2. sends' \in 0 .. MaxSends BY <2>2, <3>1 DEF HandlerSends
    <3> QED BY Zenon, <1>1, <2>2, <3>2 DEF HandlerSends, RunnerTypes, TypeOK, streamVars
  <2> QED BY Zenon, <2>1, <2>2
<1>3. RestTypes'
  <2>1. queue' \in {queue, Append(queue, "data")} BY Zenon DEF HandlerTakes, HandlerSends, sockVars
  <2>2. Append(queue, "data") \in Seq({"data", "close"}) BY Zenon, <1>1, Appended
  <2>3. queue' \in Seq({"data", "close"}) BY Zenon, <1>1, <2>1, <2>2
  <2> QED BY Zenon, <1>1, <2>3 DEF HandlerTakes, HandlerSends, RestTypes, TypeOK
<1>4. TypeOK'
  BY Zenon, <1>1, <1>2, <1>3, TypesKept, TypesSplit DEF HandlerTakes, HandlerSends, sockVars
<1>5. UNCHANGED <<phase, wsClosing, sent, logVars, msgs, ackCount, session, head, handler>>
  BY Zenon DEF HandlerTakes, HandlerSends, readVars
<1>6. (Stream /\ Log /\ Counted)' BY <1>5, StreamFacts, RunnerKeeps DEF Serving
<1>7. Opened' BY Zenon, <1>5 DEF Inv, Opened
<1> QED BY Zenon, <1>4, <1>6, <1>7 DEF Inv

\* _onWsMessage: the next message is copied, counted and acknowledged.
LEMMA OnWsMessageStep ==
  ASSUME Inv, OnWsMessage PROVE Inv'
<1> DEFINE N == ackCount + 1
<1>1. /\ TypeOK /\ msgs # <<>> /\ msgs' = Tail(msgs) /\ Ack(N) /\ N \in Nat
      /\ UNCHANGED <<envVars, phase, wsClosing, readVars, writeVars, head, handler, sends>>
  <2>1. N \in Nat BY StreamNumbers
  <2> QED BY Zenon, <2>1, StreamFacts DEF Inv, OnWsMessage
<1>2. /\ msgs' \in Seq(Message) /\ Len(msgs) >= 1 /\ Len(msgs') = Len(msgs) - 1
      /\ DOMAIN msgs' = 1 .. Len(msgs) - 1 /\ Head(msgs) \in Message /\ Head(msgs) = msgs[1]
      /\ \A i \in 1 .. Len(msgs) - 1 : msgs'[i] = msgs[i + 1]
  BY Zenon, <1>1, StreamFacts, Taken
<1>3. /\ session' = session \/ (session = "open" /\ session' = "done")
      /\ ackCount' \in Nat /\ ackCount' <= N
      /\ session' # "done" => ackCount' = N
      /\ inMap' \in BOOLEAN /\ queue' \in Seq({"data", "close"})
      /\ added' \in Nat /\ lastAdded' \in Nat /\ waiting' \in 0 .. MaxInbound
      /\ parked' \in Seq(Message)
  <2>1. CASE session = "open"
    <3>1. Deliver(<<Head(msgs)>>, N) /\ parked' = parked BY Zenon, <2>1 DEF OnWsMessage
    <3>2. <<Head(msgs)>> \in Seq(Message) /\ parked \in Seq(Message) BY SMTT(30), <1>1, <1>2 DEF TypeOK
    <3> HIDE DEF N
    <3> QED BY Zenon, <1>1, <2>1, <3>1, <3>2, DeliverFacts
  <2>2. CASE session # "open"
    <3>1. /\ ackCount' = N /\ UNCHANGED <<session, streamVars, inMap, queue>>
          /\ parked' \in {parked, Append(parked, Head(msgs))}
      BY Zenon, <2>2 DEF OnWsMessage
    <3>2. parked \in Seq(Message) BY Zenon, <1>1 DEF TypeOK
    <3>3. Append(parked, Head(msgs)) \in Seq(Message) BY Zenon, <1>2, <3>2, Appended
    <3>4. parked' \in Seq(Message) BY Zenon, <3>1, <3>2, <3>3
    <3> QED BY <1>1, <3>1, <3>4 DEF TypeOK, streamVars
  <2> QED BY Zenon, <2>1, <2>2
<1>4. /\ acked' \in {acked, N} /\ tracked' = tracked
      /\ held' = {p \in held : p > acked'}
      /\ tracked > 0 /\ phase # "closed" /\ N > acked => acked' = N
  BY Zenon, <1>1 DEF Ack
<1>5. acked' \in Nat BY Zenon, <1>1, <1>4, StreamFacts
<1>6. msgs' # <<>> => /\ Len(msgs) - 1 \in 1 .. Len(msgs) - 1 /\ Len(msgs) - 1 + 1 = Len(msgs)
                      /\ Len(msgs) \in DOMAIN msgs
  <2>1. DOMAIN msgs = 1 .. Len(msgs) /\ Len(msgs) \in Nat BY Zenon, StreamFacts
  <2>2. msgs' # <<>> => Len(msgs') # 0
    <3>1. msgs' \in Seq(Message) BY Zenon, <1>2
    <3> QED BY <3>1
  <2>3. Len(msgs') = Len(msgs) - 1 /\ Len(msgs) >= 1 BY Zenon, <1>2
  <2> QED BY <2>1, <2>2, <2>3
<1>7. \A i \in DOMAIN msgs' : i \in 1 .. Len(msgs) - 1 /\ i + 1 \in DOMAIN msgs /\ i \in Nat /\ msgs' # <<>>
  <2>1. DOMAIN msgs = 1 .. Len(msgs) /\ Len(msgs) \in Nat /\ DOMAIN msgs' = 1 .. Len(msgs) - 1
    BY Zenon, <1>2, StreamFacts
  <2>2. msgs' = <<>> => DOMAIN msgs' = {} OBVIOUS
  <2> QED BY <2>1, <2>2
<1>8. Seen' = Seen + 1 /\ Seen = Copied
      /\ (wsClosing' /\ msgs' = <<>> => Unread' = 0)
      /\ (~(wsClosing' /\ msgs' = <<>>) => Copied' = Copied + 1)
  <2>1. wsClosing' = wsClosing BY Zenon, <1>1
  <2>2. /\ Len(msgs') = Len(msgs) - 1 /\ tracked' = tracked
        /\ Len(msgs) \in Nat /\ Len(msgs) >= 1 /\ tracked \in Nat
    BY Zenon, <1>2, <1>4, StreamFacts
  <2>3. CASE ~wsClosing
    <3>1. ~CloseIn'
      <4>1. \A i \in DOMAIN msgs : msgs[i].kind # "close"
        BY Zenon, <2>3 DEF Inv, Stream, CloseIsReportedLast
      <4> SUFFICES ASSUME msgs' # <<>> PROVE msgs'[Len(msgs')].kind # "close" BY Zenon DEF CloseIn
      <4>2. Len(msgs) - 1 \in 1 .. Len(msgs) - 1 /\ Len(msgs) - 1 + 1 = Len(msgs) /\ Len(msgs) \in DOMAIN msgs
        BY Zenon, <1>6
      <4> QED BY Zenon, <1>2, <4>1, <4>2
    <3>2. ~CloseOut' BY Zenon, <2>1, <2>3 DEF CloseOut
    <3>3. Unread' = Len(msgs') BY Zenon, <3>1 DEF Unread
    <3>4. Copied' = tracked' - Unread' /\ Seen' = Copied' BY Zenon, <3>2 DEF Copied, Seen
    <3>5. Unread = Len(msgs) /\ Seen = Copied BY Zenon, <2>3, StreamSeen
    <3>6. Unread' = Unread - 1 BY Zenon, <2>2, <3>3, <3>5
    <3>7. tracked' = tracked BY Zenon, <2>2
    <3> QED BY <2>1, <2>3, <3>4, <3>5, <3>6, <3>7, StreamNumbers
  <2>4. CASE wsClosing /\ Len(msgs) = 1
    <3>1. msgs' = <<>>
      <4>1. msgs' \in Seq(Message) /\ Len(msgs') = 1 - 1 BY Zenon, <1>2, <2>4
      <4> QED BY <4>1
    <3>2. ~CloseIn' /\ CloseOut' BY Zenon, <2>1, <2>4, <3>1 DEF CloseIn, CloseOut
    <3>3. Unread' = Len(msgs') BY Zenon, <3>2 DEF Unread
    <3>4. Copied' = tracked' - Unread' /\ Seen' = Copied' + 1 BY Zenon, <3>2 DEF Copied, Seen
    <3>5. Len(msgs) # 0 BY <2>4
    <3>6. Unread = 1 - 1 /\ Seen = Copied BY Zenon, <2>4, <3>5, StreamSeen
    <3>7. Unread' = 1 - 1 /\ tracked' = tracked BY Zenon, <2>2, <2>4, <3>3
    <3> QED BY <2>1, <2>4, <3>1, <3>4, <3>6, <3>7, StreamNumbers
  <2>5. CASE wsClosing /\ Len(msgs) > 1
    <3>1. msgs' # <<>> /\ msgs'[Len(msgs')] = msgs[Len(msgs)]
      <4>1. msgs' # <<>> BY <1>2, <2>5
      <4> QED BY Zenon, <1>2, <1>6, <4>1
    <3>2. CloseIn' /\ ~CloseOut' BY Zenon, <1>1, <2>5, <3>1, StreamFacts DEF CloseIn, CloseOut
    <3>3. Unread' = Len(msgs') - 1 BY Zenon, <3>2 DEF Unread
    <3>4. Copied' = tracked' - Unread' /\ Seen' = Copied' BY Zenon, <3>2 DEF Copied, Seen
    <3>5. Len(msgs) # 0 BY <2>2
    <3>6. Unread = Len(msgs) - 1 /\ Seen = Copied BY Zenon, <2>5, <3>5, StreamSeen
    <3>7. Unread' = Unread - 1 BY Zenon, <2>2, <3>3, <3>6
    <3>8. tracked' = tracked /\ msgs' # <<>> /\ Seen = Copied BY Zenon, <2>2, <3>1, <3>6
    <3> QED BY <3>4, <3>7, <3>8, StreamNumbers
  <2>6. Len(msgs) = 1 \/ Len(msgs) > 1 BY <2>2
  <2> QED BY Zenon, <2>3, <2>4, <2>5, <2>6
<1>9. TypeOK'
  <2>1. RunnerTypes' BY Zenon, <1>1, <1>3 DEF RunnerTypes, TypeOK
  <2>2. WriteTypes' BY Zenon, <1>1, <1>2, <1>3 DEF WriteTypes, TypeOK, writeVars
  <2>3. RestTypes' BY Zenon, <1>1, <1>3 DEF RestTypes, TypeOK
  <2>4. LogTypes' BY Zenon, <1>1, <1>4, <1>5 DEF LogTypes, TypeOK
  <2> QED BY Zenon, <1>1, <2>1, <2>2, <2>3, <2>4, TypesKept, TypesSplit
<1>10. Stream'
  <2>1. CloseIsReportedLast'
    <3> SUFFICES ASSUME NEW i \in DOMAIN msgs', msgs'[i].kind = "close"
        PROVE i = Len(msgs') /\ wsClosing'
      BY Zenon DEF CloseIsReportedLast
    <3>1. i + 1 \in DOMAIN msgs /\ msgs'[i] = msgs[i + 1] /\ i \in Nat BY Zenon, <1>2, <1>7
    <3>2. i + 1 = Len(msgs) /\ wsClosing BY Zenon, <3>1 DEF Inv, Stream, CloseIsReportedLast
    <3>3. Len(msgs') = Len(msgs) - 1 /\ wsClosing' = wsClosing BY Zenon, <1>1, <1>2
    <3> QED BY <3>1, <3>2, <3>3
  <2>2. wsClosing' /\ msgs' # <<>> => msgs'[Len(msgs')].kind = "close"
    <3> SUFFICES ASSUME wsClosing', msgs' # <<>> PROVE msgs'[Len(msgs')].kind = "close" BY Zenon
    <3>1. msgs'[Len(msgs')] = msgs[Len(msgs)] BY Zenon, <1>2, <1>6
    <3> QED BY Zenon, <1>1, <3>1 DEF Inv, Stream
  <2>3. \A i \in DOMAIN msgs' : msgs'[i].kind # "close" => msgs'[i].n = Copied' + i
    <3> SUFFICES ASSUME NEW i \in DOMAIN msgs', msgs'[i].kind # "close" PROVE msgs'[i].n = Copied' + i
      BY Zenon
    <3>1. i + 1 \in DOMAIN msgs /\ msgs'[i] = msgs[i + 1] /\ i \in Nat BY Zenon, <1>2, <1>7
    <3>2. msgs[i + 1].n = Copied + (i + 1) BY Zenon, <3>1 DEF Inv, Stream
    <3>3. Copied' = Copied + 1
      <4>1. msgs' # <<>> BY Zenon, <1>7
      <4> QED BY Zenon, <1>8, <4>1
    <3>4. \A c, j \in Nat : c + (j + 1) = (c + 1) + j OBVIOUS
    <3> QED BY Zenon, <3>1, <3>2, <3>3, <3>4, StreamNumbers
  <2>4. Unread' <= tracked' /\ tracked' <= sent'
    <3>1. tracked \in Nat /\ tracked <= sent /\ sent' = sent
      BY Zenon, <1>1, StreamFacts DEF Inv, Stream, readVars
    <3>2. CASE wsClosing' /\ msgs' = <<>> BY <1>4, <1>8, <3>1, <3>2
    <3>3. CASE ~(wsClosing' /\ msgs' = <<>>)
      <4>1. Unread' \in Int
        <5>1. Len(msgs') = Len(msgs) - 1 /\ Len(msgs) \in Nat BY Zenon, <1>2, StreamFacts
        <5> QED BY <5>1 DEF Unread
      <4>2. Copied' \in Nat
        <5>1. Copied' = Copied + 1 BY Zenon, <1>8, <3>3
        <5> QED BY <5>1, StreamNumbers
      <4>3. Copied' = tracked - Unread' BY Zenon, <1>4 DEF Copied
      <4>4. \A a \in Nat, b \in Int : a - b \in Nat => b <= a OBVIOUS
      <4>5. Unread' <= tracked BY Zenon, <3>1, <4>1, <4>2, <4>3, <4>4
      <4> QED BY Zenon, <1>4, <3>1, <4>5
    <3> QED BY Zenon, <3>2, <3>3
  <2> QED BY Zenon, <2>1, <2>2, <2>3, <2>4 DEF Stream
<1>11. Log'
  <2>1. ackCount <= Seen /\ acked <= Seen BY Zenon DEF Inv, Log
  <2>2. N <= Seen' /\ Seen <= Seen' /\ Seen \in Nat /\ Seen' \in Nat
    <3>1. Seen' = Seen + 1 BY Zenon, <1>8
    <3> QED BY <2>1, <3>1, StreamNumbers
  <2>3. ackCount' <= Seen' /\ acked' <= Seen'
    <3>1. ackCount' <= N /\ acked' \in {acked, N} /\ ackCount' \in Nat /\ N \in Nat BY Zenon, <1>1, <1>3, <1>4
    <3>2. acked <= Seen' BY <2>1, <2>2, StreamNumbers
    <3> HIDE DEF N
    <3>3. ackCount' <= Seen' BY <2>2, <3>1
    <3> QED BY Zenon, <2>2, <3>1, <3>2, <3>3
  <2>4. acked <= acked'
    <3>1. Ack(N) BY Zenon, <1>1
    <3> QED BY <3>1, StreamNumbers DEF Ack
  <2>5. phase' # "closed" => held' = {p \in 1 .. tracked' : p > acked'}
    <3> SUFFICES ASSUME phase' # "closed" PROVE held' = {p \in 1 .. tracked' : p > acked'} BY Zenon
    <3>1. held = {p \in 1 .. tracked : p > acked} BY Zenon, <1>1 DEF Inv, Log
    <3>2. held' = {p \in held : p > acked'} /\ tracked' = tracked BY Zenon, <1>4
    <3> QED BY <1>5, <2>4, <3>1, <3>2, StreamNumbers
  <2>6. phase' = "closed" => held' = {} BY Zenon, <1>1, <1>4 DEF Inv, Log
  <2> QED BY Zenon, <2>3, <2>5, <2>6 DEF Log
<1>12. Opened' BY Zenon, <1>1, <1>3 DEF Inv, Opened
<1>13. Counted'
  <2> SUFFICES ASSUME Serving'
      PROVE ackCount' = Seen' /\ (phase' # "closed" /\ tracked' > 0 => acked' = ackCount')
    BY Zenon DEF Counted
  <2>1. session' # "done" /\ Serving BY Zenon, <1>1, <1>3 DEF Serving
  <2>2. ackCount' = N /\ ackCount = Seen BY Zenon, <1>3, <2>1 DEF Inv, Counted
  <2>3. phase # "closed" /\ tracked > 0 => N > acked
    <3>1. phase # "closed" /\ tracked > 0 => acked = ackCount BY Zenon, <2>1 DEF Inv, Counted
    <3> QED BY <3>1, StreamNumbers
  <2> QED BY Zenon, <1>1, <1>4, <1>8, <2>2, <2>3
<1> QED BY Zenon, <1>9, <1>10, <1>11, <1>12, <1>13 DEF Inv

\* _shutdown: what is still in the stream is dropped.
LEMMA RunnerClosesStep ==
  ASSUME Inv, RunnerCloses PROVE Inv'
<1>1. /\ TypeOK /\ phase = "closed" /\ msgs' = <<>> /\ head' = "delivered" /\ parked' = <<>>
      /\ session' = IF session = "open" THEN "done" ELSE session
      /\ UNCHANGED <<envVars, phase, wsClosing, readVars, sockVars, logVars, handler, ackCount,
                     streamVars, sends>>
  BY Zenon DEF Inv, RunnerCloses
<1>2. msgs' \in Seq(Message) /\ parked' \in Seq(Message) /\ Len(msgs') = 0 /\ DOMAIN msgs' = {}
  BY <1>1
<1>3. TypeOK'
  <2>1. RunnerTypes' BY Zenon, <1>1, <1>2 DEF RunnerTypes, TypeOK, streamVars
  <2>2. WriteTypes' BY Zenon, <1>1, <1>2 DEF WriteTypes, TypeOK, sockVars, writeVars
  <2>3. RestTypes' BY Zenon, <1>1 DEF RestTypes, TypeOK, sockVars
  <2> QED BY Zenon, <1>1, <2>1, <2>2, <2>3, TypesKept, TypesSplit
<1>4. ~CloseIn' /\ Unread' = 0 /\ tracked' = tracked BY Zenon, <1>1, <1>2 DEF CloseIn, Unread, logVars
<1>5. Copied' = tracked
  <2>1. Copied' = tracked' - Unread' BY Zenon DEF Copied
  <2> QED BY <1>4, <2>1, StreamNumbers
<1>6. Seen' \in Nat /\ Seen <= Seen'
  <2>1. CASE wsClosing
    <3>1. Seen' = Copied' + 1 BY Zenon, <1>1, <2>1 DEF Seen, CloseOut
    <3>2. Seen = Copied \/ Seen = tracked + 1 BY Zenon, <2>1, StreamSeen
    <3> QED BY <1>5, <3>1, <3>2, StreamNumbers
  <2>2. CASE ~wsClosing
    <3>1. Seen' = Copied' BY Zenon, <1>1, <2>2 DEF Seen, CloseOut
    <3>2. Seen = Copied BY Zenon, <2>2, StreamSeen
    <3> QED BY <1>5, <3>1, <3>2, StreamNumbers
  <2> QED BY Zenon, <2>1, <2>2
<1>7. Stream'
  <2>1. Unread' <= tracked' /\ tracked' <= sent'
    <3>1. tracked' = tracked /\ Unread' = 0 /\ sent' = sent /\ tracked <= sent
      BY Zenon, <1>1, <1>4 DEF Inv, Stream, readVars
    <3> QED BY <3>1, StreamNumbers
  <2> QED BY Zenon, <1>1, <1>2, <2>1 DEF Stream, CloseIsReportedLast
<1>8. Log'
  <2>1. ackCount' <= Seen' /\ acked' <= Seen'
    <3>1. ackCount <= Seen /\ acked <= Seen /\ ackCount' = ackCount /\ acked' = acked
      BY Zenon, <1>1 DEF Inv, Log, logVars
    <3> QED BY <1>6, <3>1, StreamNumbers
  <2> QED BY Zenon, <1>1, <2>1 DEF Inv, Log, logVars
<1>9. Opened' BY Zenon, <1>1 DEF Inv, Opened
<1>10. Counted' BY Zenon, <1>1 DEF Counted, Serving
<1> QED BY Zenon, <1>3, <1>7, <1>8, <1>9, <1>10 DEF Inv

\* Nothing happens.
LEMMA QuietStep ==
  ASSUME Inv, UNCHANGED vars PROVE Inv'
<1>1. TypeOK' BY Zenon, TypesKept, TypesSplit DEF Inv, vars, sockVars
<1>2. Tells BY Zenon DEF Tells, vars
<1> QED BY <1>1, <1>2, TellStep, StreamFacts DEF Inv, vars, readVars, runnerVars

\* A new connection.
LEMMA Start ==
  ASSUME Init PROVE Inv
<1>1. TypeOK
  <2>1. 0 \in 0 .. MaxFrames /\ 0 \in 0 .. MaxMsg /\ 0 \in 0 .. MaxInbound /\ 0 \in 0 .. MaxSends
    <3>1. MaxFrames \in Nat /\ MaxMsg \in Nat /\ MaxInbound \in Nat /\ MaxSends \in Nat
      BY Zenon, BoundsAssumption
    <3> QED BY <3>1
  <2>2. /\ queue \in Seq({"data", "close"}) /\ msgs \in Seq(Message) /\ parked \in Seq(Message)
    BY DEF Init
  <2>3. RunnerTypes BY <2>1, <2>2 DEF Init, RunnerTypes
  <2>4. ReadTypes /\ WriteTypes BY Zenon, <2>1, <2>2 DEF Init, ReadTypes, WriteTypes
  <2>5. EnvTypes /\ RestTypes /\ LogTypes BY Zenon, <2>1, <2>2 DEF Init, EnvTypes, RestTypes, LogTypes
  <2> QED BY Zenon, <2>3, <2>4, <2>5, TypesSplit
<1>2. ~CloseIn /\ ~CloseOut /\ Len(msgs) = 0 BY Zenon DEF Init, CloseIn, CloseOut
<1>3. Unread = 0 /\ Copied = 0 /\ Seen = 0
  <2>1. Unread = 0 BY Zenon, <1>2 DEF Unread
  <2>2. Copied = 0 BY <2>1 DEF Init, Copied
  <2> QED BY Zenon, <1>2, <2>1, <2>2 DEF Seen
<1>4. Stream BY <1>3 DEF Init, Stream, CloseIsReportedLast
<1>5. Log BY <1>3 DEF Init, Log
<1>6. Opened BY Zenon DEF Init, Opened
<1>7. Counted BY Zenon, <1>3 DEF Init, Counted
<1> QED BY Zenon, <1>1, <1>4, <1>5, <1>6, <1>7 DEF Inv

\* Every step.
LEMMA Step ==
  ASSUME Inv, [Next]_vars PROVE Inv'
<1>1. CASE EngineNext BY Zenon, <1>1, EngineStep
<1>2. CASE RunnerNext
  BY Zenon, <1>2, DispatchStep, GateAcceptsStep, FinishStep, OnWsMessageStep, HandlerStep, RunnerClosesStep
  DEF RunnerNext
<1>3. CASE UNCHANGED vars BY Zenon, <1>3, QuietStep
<1> QED BY Zenon, <1>1, <1>2, <1>3 DEF Next

\* What the invariant says of the log.
LEMMA Accounts ==
  ASSUME Inv PROVE PayloadsAccounted
<1>1. UnreadIsHeld
  <2> SUFFICES ASSUME phase # "closed", NEW i \in DOMAIN msgs, msgs[i].kind # "close"
      PROVE msgs[i].n \in held
    BY Zenon DEF UnreadIsHeld
  <2>1. held = {p \in 1 .. tracked : p > acked} /\ acked <= Seen BY Zenon DEF Inv, Log
  <2>2. msgs[i].n = Copied + i BY Zenon DEF Inv, Stream
  <2>3. wsClosing /\ msgs # <<>> => msgs[Len(msgs)].kind = "close" BY Zenon DEF Inv, Stream
  <2>4. (wsClosing => i # Len(msgs)) /\ msgs # <<>>
    <3>1. wsClosing /\ msgs # <<>> => i # Len(msgs) BY Zenon, <2>3
    <3>2. i \in 1 .. Len(msgs) /\ Len(msgs) \in Nat /\ (msgs = <<>> <=> Len(msgs) = 0) BY Zenon, StreamFacts
    <3> QED BY <3>1, <3>2
  <2>5. i \in 1 .. Unread /\ Seen = Copied BY SMTT(30), <2>4, StreamFacts
  <2>6. Copied + i \in 1 .. tracked /\ Copied + i > acked
    <3>1. acked <= Seen BY Zenon, <2>1
    <3> QED BY <2>5, <3>1, StreamNumbers
  <2> QED BY Zenon, <2>1, <2>2, <2>6
<1>2. DeliveredIsFreed
  <2> SUFFICES ASSUME msgs = <<>>, session # "done", phase # "closed" PROVE held = {}
    BY Zenon DEF DeliveredIsFreed, Inv, Log
  <2>1. Serving BY Zenon DEF Inv, TypeOK, Opened, Serving
  <2>2. held = {p \in 1 .. tracked : p > acked} BY Zenon DEF Inv, Log
  <2>3. Seen >= tracked BY StreamFacts
  <2>4. tracked > 0 => acked = Seen BY Zenon, <2>1 DEF Inv, Counted
  <2> QED BY SMTT(30), <2>2, <2>3, <2>4, StreamNumbers
<1> QED BY Zenon, <1>1, <1>2 DEF Inv, PayloadsAccounted

\* PayloadsAccounted, always: wsProcess logs a payload before it posts its
\* message, and _onWsMessage acknowledges, by the count of its session, exactly
\* what it has copied - whatever the order of the head and the messages, and
\* however the session ends.
THEOREM PayloadsAlwaysAccounted == Spec => []PayloadsAccounted
<1>1. Init => Inv BY Zenon, Start
<1>2. Inv /\ [Next]_vars => Inv' BY Zenon, Step
<1>3. Inv => PayloadsAccounted BY Zenon, Accounts
<1> QED BY <1>1, <1>2, <1>3, PTL DEF Spec

-----------------------------------------------------------------------------
(* The order of the messages.                                               *)

\* What the history says.
Beats == beaten' = (beaten \/ (gated /\ parked' # <<>>))

\* A step that leaves the session and what is parked alone.
LEMMA OrderKept ==
  ASSUME MCInv, Beats, UNCHANGED <<gated, parked, session, added, lastAdded, ackCount>>,
         Serving' => Serving
  PROVE Order'
BY Zenon DEF MCInv, Beats, Order

\* A step that ends the session, or finds it ended.
LEMMA OrderEnded ==
  ASSUME MCInv, Beats, gated' = gated, session' = "done", ~beaten' => lastAdded' = added'
  PROVE Order'
BY Zenon DEF MCInv, Beats, Order, Serving

\* The engine's steps.
LEMMA EngineOrder ==
  ASSUME MCInv, EngineNext, Beats PROVE Order'
<1>1. UNCHANGED <<gated, runnerVars>> /\ (head' = head \/ (head = "none" /\ session = "none"))
  <2>1. CASE Handshake BY Zenon, <2>1 DEF Handshake, envVars, MCInv, Inv, Opened
  <2>2. CASE RefuseHandshake BY Zenon, <2>2 DEF RefuseHandshake, envVars
  <2>3. CASE \E f \in Frames : ReadClosing(f) \/ ReadFragment(f) \/ ReadMessage(f)
    BY Zenon, <2>3 DEF ReadClosing, ReadFragment, ReadMessage, envVars
  <2>4. CASE ReadPing \/ ReadUnparsed \/ ReadPiece
    BY Zenon, <2>4 DEF ReadPing, ReadUnparsed, ReadPiece, envVars
  <2>5. CASE ReadEof \/ WriteFails \/ Landed \/ OnStopping \/ SweepWriteTimeout
    BY Zenon, <2>5 DEF ReadEof, WriteFails, Landed, OnStopping, SweepWriteTimeout, UvClose, envVars
  <2>6. CASE OnAsync BY Zenon, <2>6 DEF OnAsync, envVars
  <2>7. CASE SweepAge \/ SweepIdle \/ SweepPing \/ TimePasses
    BY Zenon, <2>7 DEF SweepAge, SweepIdle, SweepPing, TimePasses, envVars
  <2>8. CASE OnCloseConn \/ Stop \/ PeerVanishes
    BY Zenon, <2>8 DEF OnCloseConn, Stop, PeerVanishes, envVars
  <2> QED BY Zenon, <2>1, <2>2, <2>3, <2>4, <2>5, <2>6, <2>7, <2>8 DEF EngineNext
<1> QED BY Zenon, <1>1, OrderKept DEF Serving, runnerVars, streamVars

\* What a runner replays before any message beat the gate: nothing, or the
\* whole of what was parked, in order.
LEMMA ReplayOrder ==
  ASSUME MCInv, Serving, ~beaten, Deliver(parked, ackCount)
  PROVE lastAdded' = added' /\ (session' = "open" => added' = ackCount')
<1>1. parked \in Seq(Message) /\ ackCount \in Nat /\ added \in Nat /\ lastAdded = added
  BY Zenon DEF MCInv, Inv, TypeOK, Order
<1>2. /\ Added(parked) \in 0 .. Len(parked) /\ \A i \in 1 .. Added(parked) : parked[i].kind = "data"
      /\ added' = added + Added(parked)
      /\ lastAdded' = IF Added(parked) = 0 THEN lastAdded ELSE parked[Added(parked)].n
      /\ session' = "open" => ackCount' = ackCount /\ added' = added + Len(parked)
  BY ZenonT(60), <1>1, AddedFacts, DeliverFacts DEF MCInv
<1>3. CASE session = "open"
  <2>1. parked = <<>> /\ added = ackCount BY Zenon, <1>3 DEF MCInv, Order
  <2>2. Len(parked) = 0 BY Zenon, <2>1
  <2> QED BY <1>1, <1>2, <2>1, <2>2
<1>4. CASE session = "none"
  <2>1. /\ Len(parked) = ackCount /\ added = 0
        /\ \A i \in DOMAIN parked : parked[i].kind # "close" => parked[i].n = i
    BY Zenon, <1>4 DEF MCInv, Order
  <2>2. session' = "open" => added' = ackCount'
    <3>1. session' = "open" => ackCount' = ackCount /\ added' = 0 + Len(parked) BY Zenon, <1>2, <2>1
    <3> QED BY <1>1, <2>1, <3>1
  <2>3. CASE Added(parked) = 0
    <3>1. lastAdded' = lastAdded /\ added' = added + 0 BY Zenon, <1>2, <2>3
    <3> QED BY <1>1, <2>2, <3>1
  <2>4. CASE Added(parked) # 0
    <3>1. Added(parked) \in 1 .. Added(parked) /\ Added(parked) \in DOMAIN parked BY <1>1, <1>2, <2>4
    <3>2. parked[Added(parked)].n = Added(parked) BY Zenon, <1>2, <2>1, <3>1
    <3>3. lastAdded' = Added(parked) /\ added' = 0 + Added(parked) BY ZenonT(60), <1>2, <2>1, <2>4, <3>2
    <3>4. Added(parked) \in Nat BY <3>1
    <3> QED BY SMTT(30), <2>2, <3>3, <3>4
  <2> QED BY Zenon, <2>3, <2>4
<1> QED BY Zenon, <1>3, <1>4 DEF Serving

\* _runWs.
LEMMA RunWsOrder ==
  ASSUME MCInv, RunWs, Beats, gated' = gated, head' = "delivered",
         session # "none" \/ head = "posted"
  PROVE Order'
<1>1. parked' = <<>> /\ beaten' = beaten /\ beaten \in BOOLEAN BY Zenon DEF RunWs, Beats, MCInv
<1>2. CASE session = "done"
  BY Zenon, <1>1, <1>2, OrderEnded DEF RunWs, streamVars, MCInv, Order
<1>3. CASE session # "done"
  <2>1. Deliver(parked, ackCount) BY Zenon, <1>3 DEF RunWs
  <2>2. Serving BY Zenon, <1>3 DEF MCInv, Inv, TypeOK, Serving
  <2>3. session' \in {"open", "done"} BY Zenon, RunWsFacts DEF MCInv
  <2>4. ~beaten => lastAdded' = added' /\ (session' = "open" => added' = ackCount')
    BY Zenon, <2>1, <2>2, ReplayOrder
  <2> QED BY Zenon, <1>1, <2>3, <2>4 DEF Order, Serving
<1> QED BY Zenon, <1>2, <1>3

\* _dispatchWs.
LEMMA DispatchOrder ==
  ASSUME MCInv, DispatchWs, Beats PROVE Order'
<1>1. head = "posted" /\ session = "none" /\ head' = "delivered" /\ gated' = gated /\ Serving
  BY Zenon DEF DispatchWs, MCInv, Inv, Opened, Serving, envVars
<1>2. CASE ~gated BY Zenon, <1>1, <1>2, RunWsOrder DEF DispatchWs
<1>3. CASE gated
  <2>1. /\ session' = "open" /\ UNCHANGED <<parked, ackCount, added, lastAdded>>
    BY Zenon, <1>3 DEF DispatchWs, streamVars
  <2>2. added = 0 /\ lastAdded = 0 /\ Len(parked) = ackCount BY Zenon, <1>1 DEF MCInv, Order
  <2>3. ~beaten' => ~beaten /\ parked = <<>> BY Zenon, <1>3, <2>1 DEF Beats, MCInv
  <2>4. parked = <<>> => ackCount = 0 BY Zenon, <2>2
  <2> QED BY Zenon, <1>1, <2>1, <2>2, <2>3, <2>4 DEF Order, Serving
<1> QED BY Zenon, <1>2, <1>3

\* _onWsMessage.
LEMMA OnWsMessageOrder ==
  ASSUME MCInv, OnWsMessage, Beats PROVE Order'
<1> DEFINE m == Head(msgs)
           N == ackCount + 1
<1>1. /\ Inv /\ msgs # <<>> /\ gated' = gated /\ head' = head /\ beaten \in BOOLEAN
      /\ parked \in Seq(Message) /\ ackCount \in Nat /\ added \in Nat
  BY Zenon DEF MCInv, Inv, TypeOK, OnWsMessage, envVars
<1>2. m \in Message /\ m = msgs[1] /\ 1 \in DOMAIN msgs BY <1>1, StreamFacts, Taken
<1>3. ASSUME Serving, m.kind # "close" PROVE m.n = N
  <2>1. m.n = Copied + 1 BY Zenon, <1>1, <1>2, <1>3 DEF Inv, Stream
  <2>2. ackCount = Seen /\ Seen = Copied BY Zenon, <1>1, <1>3, StreamFacts DEF Inv, Counted
  <2> QED BY Zenon, <2>1, <2>2
<1>4. CASE session = "open"
  <2>1. Deliver(<<m>>, N) /\ parked' = parked BY Zenon, <1>4 DEF OnWsMessage
  <2>2. <<m>> \in Seq(Message) /\ Len(<<m>>) = 1 /\ <<m>>[1] = m /\ N \in Nat BY <1>1, <1>2
  <2> HIDE DEF m, N
  <2>3. /\ Added(<<m>>) \in 0 .. 1 /\ \A i \in 1 .. Added(<<m>>) : <<m>>[i].kind = "data"
        /\ session' \in {"open", "done"}
        /\ session' = "open" => ackCount' = N /\ added' = added + 1
        /\ added' = added + Added(<<m>>)
        /\ lastAdded' = IF Added(<<m>>) = 0 THEN lastAdded ELSE <<m>>[Added(<<m>>)].n
    BY ZenonT(60), <1>1, <2>1, <2>2, AddedFacts, DeliverFacts
  <2>4. ASSUME ~beaten'
        PROVE lastAdded' = added' /\ parked' = <<>> /\ (session' = "open" => added' = ackCount')
    <3>1. ~beaten /\ lastAdded = added /\ parked = <<>> /\ added = ackCount
      BY Zenon, <1>1, <1>4, <2>4 DEF Beats, MCInv, Order
    <3>2. CASE Added(<<m>>) = 0 BY <1>1, <2>1, <2>3, <3>1, <3>2 DEF N
    <3>3. CASE Added(<<m>>) = 1
      <4>1. m.kind = "data" BY <2>2, <2>3, <3>3
      <4>2. m.n = N BY Zenon, <1>3, <1>4, <4>1 DEF Serving
      <4>3. lastAdded' = N BY <2>2, <2>3, <3>3, <4>2
      <4>4. added' = N BY Zenon, <2>3, <3>1, <3>3 DEF N
      <4> QED BY Zenon, <2>1, <2>3, <3>1, <4>3, <4>4
    <3> QED BY <2>3, <3>2, <3>3
  <2>5. ~beaten' /\ gated => parked' = <<>> BY Zenon, <1>1 DEF Beats
  <2> QED BY Zenon, <1>1, <2>3, <2>4, <2>5 DEF Order, Serving
<1>5. CASE session = "none"
  <2>1. /\ ackCount' = N /\ UNCHANGED <<session, added, lastAdded>> /\ parked' = Append(parked, m)
    BY Zenon, <1>5 DEF OnWsMessage, streamVars
  <2>2. Serving BY Zenon, <1>1, <1>5 DEF Inv, TypeOK, Opened, Serving
  <2>3. /\ Len(parked) = ackCount /\ added = 0 /\ lastAdded = 0
        /\ \A i \in DOMAIN parked : parked[i].kind # "close" => parked[i].n = i
    BY Zenon, <1>5, <2>2 DEF MCInv, Order
  <2>4. /\ Len(parked') = N /\ DOMAIN parked' = 1 .. N /\ parked'[N] = m
        /\ \A i \in 1 .. ackCount : parked'[i] = parked[i]
    BY <1>1, <1>2, <2>1, <2>3, Appended
  <2>5. \A i \in DOMAIN parked' : parked'[i].kind # "close" => parked'[i].n = i
    <3> HIDE DEF m
    <3> SUFFICES ASSUME NEW i \in 1 .. N, parked'[i].kind # "close" PROVE parked'[i].n = i
      BY Zenon, <2>4
    <3>1. CASE i = N BY Zenon, <1>3, <2>2, <2>4, <3>1
    <3>2. CASE i # N
      <4>1. i \in 1 .. ackCount /\ i \in DOMAIN parked BY <1>1, <2>3, <3>2
      <4> QED BY Zenon, <2>3, <2>4, <4>1
    <3> QED BY Zenon, <3>1, <3>2
  <2>6. ~beaten' /\ gated => parked' = <<>> BY Zenon, <1>1 DEF Beats
  <2> QED BY Zenon, <1>1, <1>5, <2>1, <2>3, <2>4, <2>5, <2>6 DEF Order
<1>6. CASE session = "done"
  BY Zenon, <1>1, <1>6, OrderEnded DEF OnWsMessage, streamVars, MCInv, Order, Beats
<1> QED BY ZenonT(60), <1>1, <1>4, <1>5, <1>6 DEF Inv, TypeOK

\* The runner's steps.
LEMMA RunnerOrder ==
  ASSUME MCInv, RunnerNext, Beats PROVE Order'
<1>1. CASE GateAccepts
  BY Zenon, <1>1, RunWsOrder DEF GateAccepts, MCInv, Inv, Opened, TypeOK, envVars
<1>2. CASE GateRejects \/ HandlerReturns
  BY Zenon, <1>2, OrderEnded DEF GateRejects, HandlerReturns, Finish, envVars, streamVars, MCInv, Order, Beats
<1>3. CASE HandlerTakes \/ HandlerSends
  BY Zenon, <1>3, OrderKept DEF HandlerTakes, HandlerSends, envVars, streamVars, Serving
<1>4. CASE RunnerCloses
  <2>1. /\ gated' = gated /\ UNCHANGED <<added, lastAdded, ackCount>> /\ parked' = <<>>
        /\ head' = "delivered" /\ session' = IF session = "open" THEN "done" ELSE session
    BY Zenon, <1>4 DEF RunnerCloses, envVars, streamVars
  <2>2. beaten' = beaten BY Zenon, <2>1 DEF Beats, MCInv
  <2> QED BY Zenon, <2>1, <2>2 DEF MCInv, Order, Serving
<1> QED BY Zenon, <1>1, <1>2, <1>3, <1>4, DispatchOrder, OnWsMessageOrder DEF RunnerNext

\* MessagesInOrder, always: a handler's stream is what the peer sent, none
\* missing before one that arrived, unless a message beat the open of a session
\* with middleware (_runWs replays what was parked only then); and the close
\* that wsCloseConn reports is the last of its messages, and the only one.
THEOREM MessagesAlwaysInOrder == MCSpec => []MessagesInOrder
<1>1. MCInit => MCInv
  <2> SUFFICES ASSUME MCInit PROVE MCInv BY Zenon
  <2>1. Inv BY Zenon, Start DEF MCInit
  <2>2. Order BY DEF MCInit, Init, Order, Serving
  <2> QED BY Zenon, <2>1, <2>2 DEF MCInit, MCInv
<1>2. MCInv /\ [MCNext]_<<vars, beaten>> => MCInv'
  <2> SUFFICES ASSUME MCInv, [MCNext]_<<vars, beaten>> PROVE MCInv' BY Zenon
  <2>1. Inv' BY Zenon, Step DEF MCInv, MCNext
  <2>2. CASE MCNext
    <3>1. Beats BY Zenon, <2>2 DEF MCNext, Beats
    <3>2. beaten' \in BOOLEAN BY Zenon, <3>1 DEF Beats, MCInv
    <3>3. Order' BY Zenon, <2>2, <3>1, EngineOrder, RunnerOrder DEF MCNext, Next
    <3> QED BY Zenon, <2>1, <3>2, <3>3 DEF MCInv
  <2>3. CASE UNCHANGED <<vars, beaten>>
    BY Zenon, <2>1, <2>3 DEF MCInv, Order, Serving, vars, envVars, runnerVars, streamVars
  <2> QED BY Zenon, <2>2, <2>3
<1>3. MCInv => MessagesInOrder
  BY Zenon DEF MCInv, Inv, Order, Stream, MessagesInOrder, InArrivalOrder
<1> QED BY <1>1, <1>2, <1>3, PTL DEF MCSpec
=============================================================================
