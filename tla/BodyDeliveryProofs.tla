------------------------- MODULE BodyDeliveryProofs -------------------------
(***************************************************************************)
(* Memory safety of body delivery, for any number of payloads: as long as   *)
(* no upload is aborted for its size, the runner never reads a payload that *)
(* has been freed, however answers, deadlines, disconnects and the three    *)
(* streams interleave.                                                      *)
(***************************************************************************)
EXTENDS BodyDelivery, TLAPS

\* No error message is ever posted when uploads keep to their cap.
NoErrors ==
    /\ engine # "abort"
    /\ emitting # Nothing => engine = "body" /\ emitting.kind = "data"
    /\ \A i \in 1 .. Len(chunks) : chunks[i].kind # "error"

\* Until the request is completed, the queue holds exactly the payloads that
\* follow the ones copied, in order, and the end marker only behind them.
QueueFollows ==
    ~completed =>
        /\ \A i \in 1 .. Len(chunks) :
              /\ chunks[i].kind = "data" => chunks[i].payload = ackCount + i
              /\ chunks[i].kind = "end" => i = Len(chunks) /\ engine = "over"
        /\ engine # "over" =>
              /\ emitting = Nothing => tracked = ackCount + Len(chunks)
              /\ emitting # Nothing => /\ emitting.payload = tracked
                                       /\ tracked = ackCount + Len(chunks) + 1

\* Until the request is completed, only copied payloads have been freed.
FreedWereCopied == ~completed => \A p \in freed : p <= ackCount

\* Until the request is completed or its answer taken, its log is the first
\* one it got: payload p has sequence number p - 1, and the acks it has seen
\* count copied payloads.
FirstLog ==
    ~completed /\ handler # "completing" =>
        /\ engine = "body" => loc
        /\ engine # "over" /\ ~live => tracked = 0
        /\ loc => ~orphaned \/ ~live
        /\ live => /\ acked <= ackCount
                   /\ nextSeq = tracked
                   /\ \A p \in held : p <= tracked /\ seqOf[p] = p - 1

\* An answer being completed has taken the request out.
AnswerTookOut == handler = "completing" => ~loc

\* Nothing has happened before the request is dispatched.
IdleIsQuiet ==
    engine = "idle" =>
        /\ ~loc /\ ~live
        /\ head = "none" /\ chunks = <<>> /\ events = {}
        /\ entry = "none" /\ handler = "none"

\* A log holds payloads it has numbered; without one nothing is held.
EmptyLog ==
    /\ ~live => held = {}
    /\ live => \A p \in held : seqOf[p] < nextSeq

IInv ==
    /\ TypeOK /\ NoErrors /\ QueueFollows /\ FreedWereCopied /\ FirstLog
    /\ AnswerTookOut /\ IdleIsQuiet /\ EmptyLog

USE DEF Nothing, EndOfBody, StreamBody

\* TypeOK in three parts: the engine's variables, the log's and the runner's.
EngineTypes ==
    /\ route \in Routes
    /\ engine \in {"idle", "body", "abort", "over"}
    /\ loc \in BOOLEAN
    /\ emitting \in Message \cup {[kind |-> "none", payload |-> 0]}
    /\ tracked \in Payloads \cup {0}
    /\ seqOf \in [Payloads -> Nat]
    /\ head \in {"none", "posted", "delivered"}
    /\ chunks \in Seq(Message)
    /\ events \in SUBSET {"handlerTimeout", "clientDisconnect", "clientError"}

LogTypes ==
    /\ live \in BOOLEAN
    /\ nextSeq \in Nat /\ acked \in Nat
    /\ orphaned \in BOOLEAN
    /\ held \in SUBSET Payloads
    /\ freed \in SUBSET Payloads

RunnerTypes ==
    /\ entry \in {"none", "buffering", "streaming"}
    /\ ended \in BOOLEAN /\ completed \in BOOLEAN
    /\ earlyEnd \in BOOLEAN /\ earlyError \in BOOLEAN
    /\ ackCount \in Nat
    /\ handler \in {"none", "running", "completing", "opened", "streaming", "done"}

\* TypeOK is its three parts, in a state and in the next one.
LEMMA TypeParts ==
    /\ TypeOK <=> EngineTypes /\ LogTypes /\ RunnerTypes
    /\ TypeOK' <=> EngineTypes' /\ LogTypes' /\ RunnerTypes'
  BY Zenon DEF TypeOK, EngineTypes, LogTypes, RunnerTypes

\* Init establishes the invariant.
LEMMA InitIInv == Init => IInv
  <1> SUFFICES ASSUME Init PROVE IInv
    OBVIOUS
  <1>1. TypeOK
    <2>1. chunks \in Seq(Message)
      BY DEF Init
    <2>2. seqOf \in [Payloads -> Nat]
      BY DEF Init
    <2>3. QED
      BY <2>1, <2>2, Zenon DEF Init, TypeOK
  <1>2. NoErrors /\ QueueFollows
    BY DEF Init, NoErrors, QueueFollows
  <1>3. FreedWereCopied /\ FirstLog /\ AnswerTookOut /\ IdleIsQuiet /\ EmptyLog
    BY DEF Init, FreedWereCopied, FirstLog, AnswerTookOut, IdleIsQuiet, EmptyLog
  <1>4. QED
    BY <1>1, <1>2, <1>3 DEF IInv

\* TrackPayload keeps the log's types.
LEMMA TrackTypes ==
    ASSUME TypeOK, NEW p \in Payloads, TrackPayload(p)
    PROVE  /\ live' \in BOOLEAN /\ nextSeq' \in Nat /\ acked' \in Nat /\ orphaned' \in BOOLEAN
           /\ held' \in SUBSET Payloads /\ seqOf' \in [Payloads -> Nat]
           /\ freed' \in SUBSET Payloads
  BY DEF TypeOK, TrackPayload

\* EraseLog keeps the log's types.
LEMMA EraseTypes ==
    ASSUME TypeOK, EraseLog
    PROVE  /\ live' \in BOOLEAN /\ nextSeq' \in Nat /\ acked' \in Nat /\ orphaned' \in BOOLEAN
           /\ held' \in SUBSET Payloads /\ freed' \in SUBSET Payloads
  BY Zenon DEF TypeOK, EraseLog, logVars

\* AckBody keeps the log's types.
LEMMA AckTypes ==
    ASSUME TypeOK, NEW n \in Nat, AckBody(n)
    PROVE  /\ live' \in BOOLEAN /\ nextSeq' \in Nat /\ acked' \in Nat /\ orphaned' \in BOOLEAN
           /\ held' \in SUBSET Payloads /\ freed' \in SUBSET Payloads
  <1>1. live \in BOOLEAN /\ orphaned \in BOOLEAN /\ held \in SUBSET Payloads
        /\ freed \in SUBSET Payloads /\ nextSeq \in Nat /\ acked \in Nat
    BY DEF TypeOK
  <1>2. CASE live /\ n > acked
    <2>1. live' \in BOOLEAN /\ orphaned' \in BOOLEAN
      BY <1>1, <1>2, Zenon DEF AckBody, logVars
    <2>2. QED
      BY <1>1, <1>2, <2>1, Zenon DEF AckBody, logVars
  <1>3. CASE ~(live /\ n > acked)
    BY <1>1, <1>3 DEF AckBody, logVars
  <1>4. QED
    BY <1>2, <1>3

\* Erasing a request frees only what has been copied, and leaves what it does
\* not reap as it was.
LEMMA EraseSafe ==
    ASSUME IInv, EraseLog, ~completed, handler # "completing"
    PROVE  /\ \A p \in freed' : p <= ackCount
           /\ live' => /\ live /\ acked' = acked /\ nextSeq' = nextSeq
                       /\ held' = held
  <1>1. \A p \in freed : p <= ackCount
    BY DEF IInv, FreedWereCopied
  <1>2. ASSUME live, acked = nextSeq
        PROVE  \A p \in held : p <= ackCount
    <2>1. acked <= ackCount /\ nextSeq = tracked /\ \A p \in held : p <= tracked
      BY <1>2 DEF IInv, FirstLog
    <2>2. held \in SUBSET Payloads /\ ackCount \in Nat /\ tracked \in Payloads \cup {0}
      BY DEF IInv, TypeOK
    <2>3. QED
      BY <1>2, <2>1, <2>2 DEF Payloads
  <1>3. QED
    BY <1>1, <1>2 DEF EraseLog, logVars

\* Acknowledging n payloads frees only the first n, while the log is the
\* request's first.
LEMMA AckSafe ==
    ASSUME IInv, NEW n \in Nat, n >= ackCount, AckBody(n),
           ~completed, handler # "completing"
    PROVE  /\ \A p \in freed' : p <= n
           /\ nextSeq' = nextSeq
           /\ live' => /\ live /\ acked' <= n /\ held' \subseteq held
                       /\ orphaned' = orphaned
           /\ live /\ ~live' => orphaned
  <1>1. /\ ackCount \in Nat /\ acked \in Nat /\ nextSeq \in Nat /\ seqOf \in [Payloads -> Nat]
        /\ held \in SUBSET Payloads /\ freed \in SUBSET Payloads
        /\ orphaned \in BOOLEAN /\ live \in BOOLEAN
    BY DEF IInv, TypeOK
  <1>2. \A p \in freed : p <= n
    <2>1. \A p \in freed : p <= ackCount
      BY DEF IInv, FreedWereCopied
    <2>2. QED
      BY <1>1, <2>1 DEF Payloads
  <1>3. live => acked <= ackCount /\ \A p \in held : seqOf[p] = p - 1
    BY DEF IInv, FirstLog
  <1>4. CASE live /\ n > acked
    <2>0. ~(~live \/ n <= acked)
      BY <1>1, <1>4
    <2>1. /\ acked' = n /\ nextSeq' = nextSeq
          /\ held' = held \ {p \in held : seqOf[p] < n}
          /\ freed' = freed \cup {p \in held : seqOf[p] < n}
      BY <2>0, Zenon DEF AckBody
    <2>2. /\ orphaned /\ n = nextSeq => ~live'
          /\ ~(orphaned /\ n = nextSeq) => live' /\ orphaned' = orphaned
      BY <2>0, Zenon DEF AckBody
    <2>3. \A p \in freed' : p <= n
      BY <1>1, <1>2, <1>3, <1>4, <2>1 DEF Payloads
    <2>4. live' => orphaned' = orphaned
      BY <2>2
    <2>5. ~live' => orphaned
      BY <2>2
    <2>6. QED
      BY <1>4, <2>1, <2>3, <2>4, <2>5
  <1>5. CASE ~(live /\ n > acked)
    <2>1. UNCHANGED <<live, nextSeq, acked, orphaned, held, freed>>
      BY <1>1, <1>5 DEF AckBody, logVars
    <2>2. QED
      BY <1>1, <1>2, <1>3, <2>1
  <1>6. QED
    BY <1>4, <1>5

-----------------------------------------------------------------------------
(* The loop thread's steps.                                                 *)

\* Dispatch begins the request's body with an empty log.
LEMMA DispatchStep ==
    ASSUME IInv, Dispatch
    PROVE  IInv'
  <1> USE DEF IInv, Dispatch, dartVars, logVars
  <1>1. TypeOK'
    BY DEF TypeOK
  <1>2. NoErrors' /\ QueueFollows' /\ FreedWereCopied' /\ EmptyLog'
    BY DEF NoErrors, QueueFollows, FreedWereCopied, EmptyLog
  <1>3. AnswerTookOut' /\ IdleIsQuiet'
    BY DEF AnswerTookOut, IdleIsQuiet
  <1>4. FirstLog'
    BY DEF FirstLog, IdleIsQuiet
  <1>5. QED
    BY <1>1, <1>2, <1>3, <1>4

\* Track logs the next payload of the body.
LEMMA TrackStep ==
    ASSUME IInv, Track
    PROVE  IInv'
  <1> USE DEF IInv, Track
  <1>1. tracked + 1 \in Payloads /\ tracked \in Nat
    BY BoundAssumption DEF TypeOK, Payloads
  <1>2. TypeOK'
    <2>1. emitting' \in Message
      BY <1>1 DEF Message
    <2>2. QED
      BY <1>1, <2>1, TrackTypes DEF TypeOK, dartVars
  <1>3. NoErrors'
    BY DEF NoErrors, dartVars
  <1>4. QueueFollows'
    BY <1>1 DEF QueueFollows, TypeOK, dartVars
  <1>5. FreedWereCopied'
    BY DEF FreedWereCopied, TrackPayload, dartVars
  <1>6. FirstLog'
    <2> SUFFICES ASSUME ~completed, handler # "completing"
                 PROVE  FirstLog'
      BY DEF FirstLog, dartVars
    <2>1. /\ loc /\ (~live => tracked = 0) /\ (live => ~orphaned)
          /\ live => /\ acked <= ackCount /\ nextSeq = tracked
                     /\ \A p \in held : p <= tracked /\ seqOf[p] = p - 1
      BY DEF FirstLog
    <2>2. ~live => held = {}
      BY DEF EmptyLog
    <2>3. live' /\ acked' <= ackCount' /\ nextSeq' = tracked' /\ ~orphaned'
      BY <1>1, <2>1 DEF TrackPayload, TypeOK, dartVars
    <2>4. ASSUME NEW p \in held'
          PROVE  p <= tracked' /\ seqOf'[p] = p - 1
      <3>1. CASE p = tracked + 1
        BY <1>1, <2>1, <3>1 DEF TrackPayload, TypeOK
      <3>2. CASE p # tracked + 1
        <4>1. p \in held /\ live
          BY <2>2, <3>2 DEF TrackPayload
        <4>2. p \in Payloads /\ seqOf'[p] = seqOf[p]
          BY <3>2, <4>1 DEF TrackPayload, TypeOK
        <4>3. QED
          BY <1>1, <2>1, <4>1, <4>2 DEF Payloads
      <3>3. QED
        BY <3>1, <3>2
    <2>5. QED
      BY <2>1, <2>3, <2>4 DEF FirstLog, dartVars
  <1>7. AnswerTookOut' /\ IdleIsQuiet'
    BY DEF AnswerTookOut, IdleIsQuiet, dartVars
  <1>8. EmptyLog'
    BY <1>1 DEF EmptyLog, TrackPayload, TypeOK
  <1>9. QED
    BY <1>2, <1>3, <1>4, <1>5, <1>6, <1>7, <1>8

\* Emit posts the payload just logged.
LEMMA EmitStep ==
    ASSUME IInv, Emit
    PROVE  IInv'
  <1> USE DEF IInv, Emit
  <1>1. /\ chunks \in Seq(Message) /\ emitting \in Message /\ Len(chunks) \in Nat
        /\ emitting.kind = "data" /\ engine = "body"
    BY DEF TypeOK, NoErrors
  <1>2. /\ chunks' \in Seq(Message) /\ Len(chunks') = Len(chunks) + 1
        /\ chunks'[Len(chunks) + 1] = emitting
        /\ \A i \in 1 .. Len(chunks) : chunks'[i] = chunks[i]
    BY <1>1
  <1>3. TypeOK'
    BY <1>2 DEF TypeOK, dartVars, logVars
  <1>4. NoErrors'
    BY <1>1, <1>2 DEF NoErrors
  <1>5. QueueFollows'
    <2> SUFFICES ASSUME ~completed
                 PROVE  QueueFollows'
      BY DEF QueueFollows, dartVars
    <2>1. /\ \A i \in 1 .. Len(chunks) : /\ chunks[i].kind = "data" => chunks[i].payload = ackCount + i
                                        /\ chunks[i].kind # "end"
          /\ emitting.payload = tracked /\ tracked = ackCount + Len(chunks) + 1
      BY <1>1 DEF QueueFollows
    <2>2. ackCount' = ackCount /\ tracked' = tracked /\ emitting' = Nothing /\ ackCount \in Nat
      BY DEF dartVars, TypeOK
    <2>3. \A i \in 1 .. Len(chunks') :
             /\ chunks'[i].kind = "data" => chunks'[i].payload = ackCount + i
             /\ chunks'[i].kind # "end"
      BY <1>1, <1>2, <2>1, <2>2, SMTT(30)
    <2>4. QED
      BY <1>1, <1>2, <2>1, <2>2, <2>3 DEF QueueFollows
  <1>6. FreedWereCopied' /\ FirstLog' /\ AnswerTookOut' /\ EmptyLog'
    BY DEF FreedWereCopied, FirstLog, AnswerTookOut, EmptyLog, dartVars, logVars
  <1>7. IdleIsQuiet'
    BY <1>1 DEF IdleIsQuiet
  <1>8. QED
    BY <1>3, <1>4, <1>5, <1>6, <1>7

\* EmitEnd posts the end marker behind the last payload.
LEMMA EmitEndStep ==
    ASSUME IInv, EmitEnd
    PROVE  IInv'
  <1> USE DEF IInv, EmitEnd
  <1>1. chunks \in Seq(Message) /\ Len(chunks) \in Nat /\ EndOfBody \in Message
    BY DEF TypeOK, Message
  <1>2. /\ chunks' \in Seq(Message) /\ Len(chunks') = Len(chunks) + 1
        /\ chunks'[Len(chunks) + 1] = EndOfBody
        /\ \A i \in 1 .. Len(chunks) : chunks'[i] = chunks[i]
    BY <1>1
  <1>3. TypeOK'
    BY <1>2 DEF TypeOK, dartVars, logVars
  <1>4. NoErrors'
    BY <1>1, <1>2 DEF NoErrors
  <1>5. QueueFollows'
    <2> SUFFICES ASSUME ~completed
                 PROVE  QueueFollows'
      BY DEF QueueFollows, dartVars
    <2>1. \A i \in 1 .. Len(chunks) : /\ chunks[i].kind = "data" => chunks[i].payload = ackCount + i
                                     /\ chunks[i].kind # "end"
      BY <1>1 DEF QueueFollows
    <2>2. ackCount' = ackCount /\ engine' = "over"
      BY DEF dartVars
    <2>3. \A i \in 1 .. Len(chunks') :
             /\ chunks'[i].kind = "data" => chunks'[i].payload = ackCount + i
             /\ chunks'[i].kind = "end" => i = Len(chunks')
      BY <1>1, <1>2, <2>1
    <2>4. QED
      BY <2>2, <2>3 DEF QueueFollows
  <1>6. FreedWereCopied' /\ FirstLog' /\ AnswerTookOut' /\ IdleIsQuiet' /\ EmptyLog'
    BY DEF FreedWereCopied, FirstLog, AnswerTookOut, IdleIsQuiet, EmptyLog, dartVars, logVars
  <1>7. QED
    BY <1>3, <1>4, <1>5, <1>6

\* Erasing keeps the log within its numbers.
LEMMA EraseBounds ==
    ASSUME IInv, EraseLog, UNCHANGED seqOf
    PROVE  EmptyLog'
  BY DEF IInv, EmptyLog, EraseLog, logVars

\* Acknowledging keeps the log within its numbers.
LEMMA AckBounds ==
    ASSUME IInv, NEW n \in Nat, AckBody(n), UNCHANGED seqOf
    PROVE  EmptyLog'
  <1>1. /\ acked \in Nat /\ nextSeq \in Nat /\ seqOf \in [Payloads -> Nat]
        /\ held \in SUBSET Payloads
    BY DEF IInv, TypeOK
  <1>2. (~live => held = {}) /\ (live => \A p \in held : seqOf[p] < nextSeq)
    BY DEF IInv, EmptyLog
  <1>3. CASE ~live \/ n <= acked
    <2>1. ~(live /\ n > acked)
      BY <1>1, <1>3
    <2>2. UNCHANGED <<live, nextSeq, held>>
      BY <2>1, Zenon DEF AckBody, logVars
    <2>3. QED
      BY <1>2, <2>2 DEF EmptyLog
  <1>4. CASE ~(~live \/ n <= acked)
    <2>1. held' = held \ {p \in held : seqOf[p] < n} /\ nextSeq' = nextSeq
      BY <1>4, Zenon DEF AckBody
    <2>2. ~live' => n = nextSeq
      BY <1>4, Zenon DEF AckBody
    <2>3. ~live' => held' = {}
      BY <1>1, <1>2, <1>4, <2>1, <2>2
    <2>4. \A p \in held' : seqOf'[p] < nextSeq'
      BY <1>1, <1>2, <1>4, <2>1
    <2>5. QED
      BY <2>3, <2>4 DEF EmptyLog
  <1>5. QED
    BY <1>3, <1>4

\* The log after EraseLog, for a request taken out of reqLoc_.
LEMMA EraseFirstLog ==
    ASSUME IInv, EraseLog, ~completed, handler # "completing",
           UNCHANGED <<ackCount, tracked, seqOf, completed>>, engine' = "over", ~loc'
    PROVE  FreedWereCopied' /\ FirstLog'
  <1>1. /\ \A p \in freed' : p <= ackCount
        /\ live' => live /\ acked' = acked /\ nextSeq' = nextSeq /\ held' = held
    BY EraseSafe
  <1>2. FreedWereCopied'
    BY <1>1 DEF FreedWereCopied
  <1>3. FirstLog'
    BY <1>1 DEF IInv, FirstLog
  <1>4. QED
    BY <1>2, <1>3

\* Retire takes the request out and posts why.
LEMMA RetireStep ==
    ASSUME IInv, NEW kind \in {"handlerTimeout", "clientError"}, Retire(kind)
    PROVE  IInv'
  <1> USE DEF IInv
  <1>1. /\ EraseLog /\ loc /\ emitting = Nothing /\ engine' = "over" /\ loc' = FALSE
        /\ UNCHANGED <<route, emitting, tracked, seqOf, head, chunks, entry, ended, earlyEnd,
                       earlyError, ackCount, completed, handler>>
        /\ events' = events \cup {kind}
    BY DEF Retire, AtRest, dartVars
  <1>2. TypeOK'
    <2>1. events' \in SUBSET {"handlerTimeout", "clientDisconnect", "clientError"}
      BY <1>1 DEF TypeOK
    <2>2. /\ live' \in BOOLEAN /\ nextSeq' \in Nat /\ acked' \in Nat /\ orphaned' \in BOOLEAN
          /\ held' \in SUBSET Payloads /\ freed' \in SUBSET Payloads
      BY <1>1, EraseTypes
    <2>3. EngineTypes'
      BY <1>1, <2>1, TypeParts, Zenon DEF EngineTypes
    <2>4. LogTypes'
      BY <2>2 DEF LogTypes
    <2>5. RunnerTypes'
      BY SMTT(30), <1>1, TypeParts DEF RunnerTypes
    <2>6. QED
      BY <2>3, <2>4, <2>5, TypeParts
  <1>3. NoErrors' /\ QueueFollows' /\ AnswerTookOut' /\ IdleIsQuiet'
    BY <1>1 DEF NoErrors, QueueFollows, AnswerTookOut, IdleIsQuiet
  <1>4. FreedWereCopied' /\ FirstLog'
    <2>1. CASE completed
      BY <1>1, <2>1 DEF FreedWereCopied, FirstLog
    <2>2. CASE ~completed
      <3>1. handler # "completing"
        BY <1>1 DEF AnswerTookOut
      <3>2. QED
        BY <1>1, <2>2, <3>1, EraseFirstLog
    <2>3. QED
      BY <2>1, <2>2
  <1>5. EmptyLog'
    BY <1>1, EraseBounds
  <1>6. QED
    BY SMTT(30), <1>2, <1>3, <1>4, <1>5

\* Disconnect takes a request still in reqLoc_ out, and ends its upload.
LEMMA DisconnectStep ==
    ASSUME IInv, Disconnect
    PROVE  IInv'
  <1> USE DEF IInv
  <1>1. /\ emitting = Nothing /\ engine' = "over" /\ ~loc'
        /\ UNCHANGED <<route, emitting, tracked, seqOf, head, chunks, entry, ended, earlyEnd,
                       earlyError, ackCount, completed, handler>>
        /\ loc' \in BOOLEAN
    BY Zenon DEF Disconnect, AtRest, dartVars
  <1>0. events' \in {events, events \cup {"clientDisconnect"}}
    BY SMTT(30) DEF Disconnect
  <1>2. NoErrors' /\ QueueFollows' /\ AnswerTookOut' /\ IdleIsQuiet'
    BY <1>1 DEF NoErrors, QueueFollows, AnswerTookOut, IdleIsQuiet
  <1>3. CASE loc
    <2>1. EraseLog
      BY SMTT(30), <1>3 DEF Disconnect
    <2>2. TypeOK'
      BY <1>0, <1>1, <2>1, EraseTypes DEF TypeOK
    <2>3. FreedWereCopied' /\ FirstLog'
      <3>1. CASE completed
        BY SMTT(30), <1>1, <3>1 DEF FreedWereCopied, FirstLog
      <3>2. CASE ~completed
        <4>1. handler # "completing"
          BY <1>3 DEF AnswerTookOut
        <4>2. QED
          BY <1>1, <2>1, <3>2, <4>1, EraseFirstLog
      <3>3. QED
        BY <3>1, <3>2
    <2>4. EmptyLog'
      BY <1>1, <2>1, EraseBounds
    <2>5. QED
      BY <1>2, <2>2, <2>3, <2>4
  <1>4. CASE ~loc
    <2>1. UNCHANGED logVars
      BY <1>4 DEF Disconnect
    <2>2. TypeOK'
      BY SMTT(30), <1>0, <1>1, <2>1 DEF TypeOK, logVars
    <2>3. FreedWereCopied' /\ FirstLog' /\ EmptyLog'
      BY <1>1, <2>1 DEF FreedWereCopied, FirstLog, EmptyLog, logVars
    <2>4. QED
      BY <1>2, <2>2, <2>3
  <1>5. QED
    BY <1>3, <1>4

\* WriteStreamHead changes nothing but where the answer stands.
LEMMA WriteStreamHeadStep ==
    ASSUME IInv, WriteStreamHead
    PROVE  IInv'
  <1> USE DEF IInv, WriteStreamHead, logVars
  <1>1. TypeOK'
    BY DEF TypeOK
  <1>2. NoErrors' /\ QueueFollows' /\ FreedWereCopied' /\ EmptyLog' /\ IdleIsQuiet'
    BY DEF NoErrors, QueueFollows, FreedWereCopied, EmptyLog, IdleIsQuiet
  <1>3. FirstLog' /\ AnswerTookOut'
    BY DEF FirstLog, AnswerTookOut
  <1>4. QED
    BY <1>1, <1>2, <1>3

-----------------------------------------------------------------------------
(* The runner's steps.                                                      *)

\* Flush keeps the log's types and numbers.
LEMMA FlushLog ==
    ASSUME IInv, NEW n \in Nat, Flush(n), UNCHANGED seqOf
    PROVE  /\ live' \in BOOLEAN /\ nextSeq' \in Nat /\ acked' \in Nat /\ orphaned' \in BOOLEAN
           /\ held' \in SUBSET Payloads /\ freed' \in SUBSET Payloads
           /\ EmptyLog'
  <1>1. CASE n > 0
    BY SMTT(30), <1>1, AckTypes, AckBounds DEF Flush, IInv
  <1>2. CASE ~(n > 0)
    BY <1>2 DEF Flush, IInv, TypeOK, EmptyLog, logVars
  <1>3. QED
    BY <1>1, <1>2

\* A cumulative ack of everything copied keeps the log the request's first.
LEMMA AckFirstLog ==
    ASSUME IInv, ~completed, handler # "completing",
           NEW n \in Nat, n >= ackCount, ackCount' = n,
           AckBody(n) \/ UNCHANGED logVars,
           UNCHANGED <<engine, loc, tracked, seqOf>>
    PROVE  FreedWereCopied' /\ FirstLog'
  <1>1. /\ \A p \in freed' : p <= n
        /\ nextSeq' = nextSeq
        /\ live' => live /\ acked' <= n /\ held' \subseteq held /\ orphaned' = orphaned
        /\ live /\ ~live' => orphaned
    <2>1. CASE AckBody(n)
      BY <2>1, AckSafe
    <2>2. CASE UNCHANGED logVars
      <3>1. /\ ackCount \in Nat /\ acked \in Nat /\ freed \in SUBSET Payloads
            /\ \A p \in freed : p <= ackCount
            /\ live => acked <= ackCount
        BY DEF IInv, TypeOK, FreedWereCopied, FirstLog
      <3>2. QED
        BY SMTT(30), <2>2, <3>1 DEF logVars, Payloads
    <2>3. QED
      BY <2>1, <2>2
  <1>2. FreedWereCopied'
    BY <1>1 DEF FreedWereCopied
  <1>3. engine # "over" /\ ~live' => tracked = 0
    <2>1. engine = "idle" => ~live
      BY DEF IInv, IdleIsQuiet
    <2>2. engine = "body" => ~live \/ ~orphaned
      BY SMTT(30) DEF IInv, FirstLog
    <2>3. engine \in {"idle", "body", "over"}
      BY DEF IInv, TypeOK, NoErrors
    <2>4. QED
      BY <1>1, <2>1, <2>2, <2>3 DEF IInv, FirstLog
  <1>4. FirstLog'
    BY <1>1, <1>3, SMTT(30) DEF IInv, FirstLog
  <1>5. QED
    BY <1>2, <1>4

\* OnHead consumes the head; the ack it may send counts what was copied.
LEMMA OnHeadStep ==
    ASSUME IInv, OnHead
    PROVE  IInv'
  <1> USE DEF IInv
  <1>1. /\ handler # "completing" /\ head = "posted" /\ head' = "delivered"
        /\ UNCHANGED <<route, engine, loc, emitting, tracked, seqOf, chunks, events>>
        /\ ackCount \in Nat /\ completed \in BOOLEAN
    BY DEF OnHead, TypeOK
  <1>2. earlyEnd' \in BOOLEAN /\ earlyError' \in BOOLEAN
    BY DEF OnHead, TypeOK
  <1>3. engine # "idle"
    BY <1>1 DEF IdleIsQuiet
  <1>4. NoErrors' /\ IdleIsQuiet'
    BY <1>1, <1>3 DEF NoErrors, IdleIsQuiet
  <1>5. CASE /\ completed
             /\ UNCHANGED <<logVars, entry, ended, ackCount, completed, handler>>
    <2>1. TypeOK'
      BY <1>1, <1>2, <1>5, SMTT(30) DEF TypeOK, logVars
    <2>2. QueueFollows' /\ FreedWereCopied' /\ FirstLog' /\ AnswerTookOut' /\ EmptyLog'
      BY <1>1, <1>5 DEF QueueFollows, FreedWereCopied, FirstLog, AnswerTookOut, EmptyLog, logVars
    <2>3. QED
      BY SMTT(30), <1>4, <2>1, <2>2
  <1>6. CASE ~completed /\ Complete /\ UNCHANGED <<ended, handler>>
    <2>1. entry' = "none" /\ completed' = TRUE /\ ackCount' = 0 /\ Flush(ackCount)
      BY SMTT(30), <1>6 DEF Complete
    <2>2. TypeOK' /\ EmptyLog'
      BY <1>1, <1>2, <1>6, <2>1, FlushLog, SMTT(30) DEF TypeOK
    <2>3. QueueFollows' /\ FreedWereCopied' /\ FirstLog' /\ AnswerTookOut'
      BY <1>1, <1>6, <2>1 DEF QueueFollows, FreedWereCopied, FirstLog, AnswerTookOut
    <2>4. QED
      BY <1>4, <2>2, <2>3
  <1>7. CASE /\ ~completed
             /\ entry' \in {"buffering", "streaming"}
             /\ handler' \in {"running", handler} /\ ended' \in BOOLEAN
             /\ Flush(ackCount) \/ UNCHANGED logVars
             /\ UNCHANGED <<ackCount, completed>>
    <2>1. AckBody(ackCount) \/ UNCHANGED logVars
      BY SMTT(30), <1>7 DEF Flush
    <2>2. TypeOK'
      <3>1. /\ live' \in BOOLEAN /\ nextSeq' \in Nat /\ acked' \in Nat /\ orphaned' \in BOOLEAN
            /\ held' \in SUBSET Payloads /\ freed' \in SUBSET Payloads
        BY <1>1, <2>1, AckTypes DEF TypeOK, logVars
      <3>2. QED
        BY SMTT(30), <1>1, <1>2, <1>7, <3>1 DEF TypeOK
    <2>3. EmptyLog'
      BY <1>1, <2>1, AckBounds DEF EmptyLog, logVars
    <2>4. FreedWereCopied' /\ FirstLog'
      BY SMTT(30), <1>1, <1>7, <2>1, AckFirstLog
    <2>5. QueueFollows' /\ AnswerTookOut'
      BY SMTT(30), <1>1, <1>7 DEF QueueFollows, AnswerTookOut
    <2>6. QED
      BY <1>4, <2>2, <2>3, <2>4, <2>5
  <1>8. QED
    BY ZenonT(60), <1>5, <1>6, <1>7 DEF OnHead, TypeOK

\* The queue after its first message is consumed.
LEMMA TailFacts ==
    ASSUME IInv, chunks # <<>>, chunks' = Tail(chunks)
    PROVE  /\ chunks' \in Seq(Message) /\ Len(chunks) \in Nat /\ Len(chunks) >= 1
           /\ Head(chunks) = chunks[1] /\ Len(chunks') = Len(chunks) - 1
           /\ \A i \in 1 .. Len(chunks') : chunks'[i] = chunks[i + 1]
  BY SMTT(30) DEF IInv, TypeOK

\* OnChunk copies and counts the payload at the head of the queue, or
\* acknowledges a straggler unread.
LEMMA OnChunkStep ==
    ASSUME IInv, OnChunk
    PROVE  IInv'
  <1> USE DEF IInv
  <1>1. /\ handler # "completing" /\ chunks # <<>> /\ chunks' = Tail(chunks)
        /\ UNCHANGED <<route, engine, loc, emitting, tracked, seqOf, head, events>>
        /\ ackCount \in Nat /\ tracked \in Nat
    BY DEF OnChunk, TypeOK, Payloads
  <1>2. /\ chunks' \in Seq(Message) /\ Len(chunks) \in Nat /\ Len(chunks) >= 1
        /\ Head(chunks) = chunks[1] /\ Len(chunks') = Len(chunks) - 1
        /\ \A i \in 1 .. Len(chunks') : chunks'[i] = chunks[i + 1]
    BY SMTT(30), <1>1, TailFacts
  <1>3. NoErrors' /\ IdleIsQuiet'
    <2>1. engine # "idle"
      BY SMTT(30), <1>1 DEF IdleIsQuiet
    <2>2. QED
      BY <1>1, <1>2, <2>1 DEF NoErrors, IdleIsQuiet
  <1>4. Head(chunks).kind # "error"
    BY <1>2 DEF NoErrors
  <1>5. CASE OnData /\ completed
    <2>1. /\ AckBody(1)
          /\ UNCHANGED <<entry, ended, earlyEnd, earlyError, ackCount, completed, handler>>
      BY <1>5, SMTT(30) DEF OnData
    <2>2. TypeOK'
      BY <1>1, <1>2, <2>1, AckTypes, SMTT(30) DEF TypeOK
    <2>3. QueueFollows' /\ FreedWereCopied' /\ FirstLog' /\ AnswerTookOut'
      BY <1>1, <1>5, <2>1 DEF QueueFollows, FreedWereCopied, FirstLog, AnswerTookOut
    <2>4. EmptyLog'
      BY <1>1, <2>1, AckBounds
    <2>5. QED
      BY <1>3, <2>2, <2>3, <2>4
  <1>6. CASE OnData /\ ~completed
    <2>1. /\ ackCount' = ackCount + 1 /\ Head(chunks).kind = "data"
          /\ AckBody(ackCount + 1) \/ UNCHANGED logVars
          /\ UNCHANGED <<entry, ended, earlyEnd, earlyError, completed, handler>>
      BY <1>6, SMTT(30) DEF OnData
    <2>2. TypeOK'
      <3>1. /\ live' \in BOOLEAN /\ nextSeq' \in Nat /\ acked' \in Nat /\ orphaned' \in BOOLEAN
            /\ held' \in SUBSET Payloads /\ freed' \in SUBSET Payloads
        <4>1. CASE AckBody(ackCount + 1)
          BY <1>1, <4>1, AckTypes
        <4>2. CASE UNCHANGED logVars
          BY <4>2 DEF TypeOK, logVars
        <4>3. QED
          BY <2>1, <4>1, <4>2
      <3>2. QED
        BY <1>1, <1>2, <2>1, <3>1 DEF TypeOK
    <2>3. FreedWereCopied' /\ FirstLog'
      BY <1>1, <1>6, <2>1, AckFirstLog, SMTT(30)
    <2>4. QueueFollows'
      <3>1. ASSUME NEW i \in 1 .. Len(chunks')
            PROVE  /\ chunks'[i].kind = "data" => chunks'[i].payload = ackCount' + i
                   /\ chunks'[i].kind = "end" => i = Len(chunks') /\ engine' = "over"
        <4>1. i + 1 \in 1 .. Len(chunks) /\ chunks'[i] = chunks[i + 1] /\ i \in Nat
          BY SMTT(30), <1>2
        <4>2. /\ chunks[i + 1].kind = "data" => chunks[i + 1].payload = ackCount + (i + 1)
              /\ chunks[i + 1].kind = "end" => i + 1 = Len(chunks) /\ engine = "over"
          BY <1>6, <4>1 DEF QueueFollows
        <4>3. Len(chunks') = Len(chunks) - 1 /\ Len(chunks) \in Nat
          BY <1>2
        <4>4. i + 1 = Len(chunks) => i = Len(chunks')
          BY <4>1, <4>3
        <4>5. ackCount' + i = ackCount + (i + 1)
          BY <1>1, <2>1, <4>1
        <4>6. engine' = engine /\ chunks'[i] = chunks[i + 1]
          BY <1>1, <4>1
        <4>7. QED
          BY <4>2, <4>4, <4>5, <4>6
      <3>2. engine # "over" =>
              /\ emitting = Nothing => tracked = ackCount' + Len(chunks')
              /\ emitting # Nothing => /\ emitting.payload = tracked
                                       /\ tracked = ackCount' + Len(chunks') + 1
        <4>1. engine # "over" =>
                /\ emitting = Nothing => tracked = ackCount + Len(chunks)
                /\ emitting # Nothing => /\ emitting.payload = tracked
                                         /\ tracked = ackCount + Len(chunks) + 1
          BY <1>6 DEF QueueFollows
        <4>2. ackCount' + Len(chunks') = ackCount + Len(chunks)
          BY <1>1, <1>2, <2>1
        <4>3. QED
          BY SMTT(30), <4>1, <4>2
      <3>3. QED
        BY <1>1, <2>1, <3>1, <3>2 DEF QueueFollows
    <2>5. AnswerTookOut'
      BY <1>1, <2>1 DEF AnswerTookOut
    <2>6. EmptyLog'
      BY <1>1, <2>1, AckBounds DEF EmptyLog, logVars
    <2>7. QED
      BY <1>3, <2>2, <2>3, <2>4, <2>5, <2>6
  <1>7. CASE OnEnd
    <2>1. /\ Head(chunks).kind = "end" /\ handler' \in {handler, "running"}
          /\ UNCHANGED <<live, nextSeq, acked, orphaned, held, freed, entry, earlyError,
                         ackCount, completed>>
      BY SMTT(30), <1>7 DEF OnEnd, logVars
    <2>2. ended' \in BOOLEAN /\ earlyEnd' \in BOOLEAN
      BY <1>7, SMTT(30) DEF OnEnd, TypeOK
    <2>3. TypeOK'
      BY <1>1, <1>2, <2>1, <2>2, SMTT(30) DEF TypeOK
    <2>4. QueueFollows'
      <3> SUFFICES ASSUME ~completed
                   PROVE  QueueFollows'
        BY <2>1 DEF QueueFollows
      <3>1. 1 \in 1 .. Len(chunks) /\ chunks[1].kind = "end"
        BY <1>2, <2>1
      <3>2. 1 = Len(chunks) /\ engine = "over"
        BY <3>1, ZenonT(30) DEF QueueFollows
      <3>3. \A i \in 1 .. Len(chunks') : FALSE
        <4>1. Len(chunks') = Len(chunks) - 1
          BY <1>2
        <4>2. Len(chunks') = 0
          BY SMTT(30), <3>2, <4>1
        <4>3. QED
          BY <4>2
      <3>4. QED
        BY <1>1, <3>2, <3>3, SMTT(30) DEF QueueFollows
    <2>5. FreedWereCopied' /\ FirstLog' /\ AnswerTookOut' /\ EmptyLog'
      BY <1>1, <2>1 DEF FreedWereCopied, FirstLog, AnswerTookOut, EmptyLog
    <2>6. QED
      BY <1>3, <2>3, <2>4, <2>5
  <1>8. QED
    BY <1>4, <1>5, <1>6, <1>7 DEF OnChunk, OnError

\* Completing a request makes every promise about an unfinished one void.
LEMMA CompleteStep ==
    ASSUME IInv, Complete,
           UNCHANGED <<route, engine, loc, emitting, tracked, seqOf, head, chunks,
                       earlyEnd, earlyError>>,
           events' \subseteq events, ended' \in BOOLEAN, engine # "idle",
           handler' \in {handler, "done"}
    PROVE  IInv'
  <1> USE DEF IInv
  <1>1. entry' = "none" /\ completed' = TRUE /\ ackCount' = 0 /\ Flush(ackCount)
    BY SMTT(30) DEF Complete
  <1>2. ackCount \in Nat
    BY DEF TypeOK
  <1>3. TypeOK' /\ EmptyLog'
    <2>1. EngineTypes'
      BY TypeParts DEF EngineTypes
    <2>2. LogTypes' /\ EmptyLog'
      BY <1>1, <1>2, FlushLog DEF LogTypes
    <2>3. RunnerTypes'
      BY <1>1, TypeParts DEF RunnerTypes
    <2>4. QED
      BY SMTT(30), <2>1, <2>2, <2>3, TypeParts
  <1>4. QueueFollows' /\ FreedWereCopied' /\ FirstLog' /\ AnswerTookOut'
    <2>1. QueueFollows' /\ FreedWereCopied' /\ FirstLog'
      BY <1>1, Zenon DEF QueueFollows, FreedWereCopied, FirstLog
    <2>2. handler' = "completing" => handler = "completing"
      OBVIOUS
    <2>3. AnswerTookOut'
      BY <2>2 DEF AnswerTookOut
    <2>4. QED
      BY <2>1, <2>3
  <1>5. NoErrors' /\ IdleIsQuiet'
    BY Zenon DEF NoErrors, IdleIsQuiet
  <1>6. QED
    BY <1>3, <1>4, <1>5

\* OnEvent completes the request, or only reports.
LEMMA OnEventStep ==
    ASSUME IInv, NEW kind \in {"handlerTimeout", "clientDisconnect", "clientError"},
           OnEvent(kind)
    PROVE  IInv'
  <1>1. /\ events' = events \ {kind} /\ kind \in events
        /\ UNCHANGED <<route, engine, loc, emitting, tracked, seqOf, head, chunks,
                       earlyEnd, earlyError>>
    BY DEF OnEvent
  <1>2. engine # "idle"
    BY <1>1 DEF IInv, IdleIsQuiet
  <1>3. CASE kind \in {"clientDisconnect", "handlerTimeout"}
    <2>1. Complete /\ handler' \in {handler, "done"}
      BY <1>3, SMTT(30) DEF OnEvent
    <2>2. ended' \in BOOLEAN
      BY <1>3 DEF OnEvent, IInv, TypeOK
    <2>3. QED
      BY <1>1, <1>2, <2>1, <2>2, CompleteStep
  <1>4. CASE kind \notin {"clientDisconnect", "handlerTimeout"}
    <2>1. UNCHANGED <<live, nextSeq, acked, orphaned, held, freed, entry, ended, ackCount,
                      completed, handler>>
      BY <1>4, SMTT(30) DEF OnEvent, logVars
    <2>2. TypeOK'
      BY <1>1, <2>1, SMTT(30) DEF IInv, TypeOK
    <2>3. NoErrors' /\ QueueFollows' /\ IdleIsQuiet'
      BY SMTT(30), <1>1, <1>2, <2>1 DEF IInv, NoErrors, QueueFollows, IdleIsQuiet
    <2>4. FreedWereCopied' /\ FirstLog' /\ AnswerTookOut' /\ EmptyLog'
      BY <1>1, <2>1 DEF IInv, FreedWereCopied, FirstLog, AnswerTookOut, EmptyLog
    <2>5. QED
      BY <2>2, <2>3, <2>4 DEF IInv
  <1>5. QED
    BY <1>3, <1>4

\* Taking the request out for an answer frees only what has been copied.
LEMMA TakeOutStep ==
    ASSUME IInv, TakeOut, handler \notin {"none", "completing"},
           UNCHANGED <<route, engine, emitting, tracked, seqOf, head, chunks, events>>
    PROVE  IInv'
  <1> USE DEF IInv
  <1>1. /\ loc' = FALSE /\ handler' = "completing"
        /\ UNCHANGED <<entry, ended, earlyEnd, earlyError, ackCount, completed>>
    BY DEF TakeOut
  <1>0. EraseLog \/ UNCHANGED <<live, nextSeq, acked, orphaned, held, freed>>
    BY DEF TakeOut, logVars
  <1>2. TypeOK' /\ EmptyLog' /\ FreedWereCopied'
    <2>0. EngineTypes' /\ RunnerTypes'
      <3>1. EngineTypes'
        BY <1>1, TypeParts, Zenon DEF EngineTypes
      <3>2. RunnerTypes'
        BY <1>1, TypeParts DEF RunnerTypes
      <3>3. QED
        BY <3>1, <3>2, SMTT(30)
    <2>1. CASE EraseLog
      <3>1. TypeOK' /\ EmptyLog'
        <4>1. LogTypes' /\ EmptyLog'
          BY <2>1, EraseTypes, EraseBounds DEF LogTypes
        <4>2. QED
          BY <2>0, <4>1, TypeParts
      <3>2. FreedWereCopied'
        BY <1>1, <2>1, EraseSafe DEF FreedWereCopied
      <3>3. QED
        BY <3>1, <3>2
    <2>2. CASE UNCHANGED <<live, nextSeq, acked, orphaned, held, freed>>
      <3>1. TypeOK'
        <4>1. LogTypes'
          BY <2>2, TypeParts DEF LogTypes
        <4>2. QED
          BY <2>0, <4>1, TypeParts
      <3>2. EmptyLog' /\ FreedWereCopied'
        BY <1>1, <2>2, SMTT(30) DEF EmptyLog, FreedWereCopied
      <3>3. QED
        BY <3>1, <3>2
    <2>3. QED
      BY <1>0, <2>1, <2>2
  <1>3. NoErrors' /\ QueueFollows'
    BY <1>1, SMTT(30) DEF NoErrors, QueueFollows
  <1>4. FirstLog' /\ AnswerTookOut' /\ IdleIsQuiet'
    BY <1>1 DEF FirstLog, AnswerTookOut, IdleIsQuiet
  <1>5. QED
    BY <1>2, <1>3, <1>4

\* Deliver drops the response, opens its stream, or answers.
LEMMA DeliverStep ==
    ASSUME IInv, Deliver
    PROVE  IInv'
  <1> USE DEF IInv
  <1>1. /\ handler = "running"
        /\ UNCHANGED <<route, engine, emitting, tracked, seqOf, head, chunks, events, entry,
                       ended, earlyEnd, earlyError, ackCount, completed>>
    BY DEF Deliver
  <1>2. CASE handler' \in {"done", "opened"} /\ UNCHANGED <<loc, logVars>>
    <2>1. TypeOK'
      BY <1>1, <1>2, SMTT(30) DEF TypeOK, logVars
    <2>2. NoErrors' /\ QueueFollows' /\ FreedWereCopied' /\ EmptyLog'
      BY SMTT(30), <1>1, <1>2 DEF NoErrors, QueueFollows, FreedWereCopied, EmptyLog, logVars
    <2>3. FirstLog' /\ AnswerTookOut' /\ IdleIsQuiet'
      BY <1>1, <1>2 DEF FirstLog, AnswerTookOut, IdleIsQuiet, logVars
    <2>4. QED
      BY <2>1, <2>2, <2>3, SMTT(30)
  <1>3. CASE TakeOut
    BY <1>1, <1>3, TakeOutStep
  <1>4. QED
    BY <1>2, <1>3 DEF Deliver

\* FinishStream takes the request out.
LEMMA FinishStreamStep ==
    ASSUME IInv, FinishStream
    PROVE  IInv'
  BY TakeOutStep, SMTT(30) DEF FinishStream

\* CompleteAnswer completes an answered request.
LEMMA CompleteAnswerStep ==
    ASSUME IInv, CompleteAnswer
    PROVE  IInv'
  <1>1. engine # "idle"
    BY DEF IInv, IdleIsQuiet, CompleteAnswer
  <1>2. QED
    BY <1>1, CompleteStep DEF CompleteAnswer, IInv, TypeOK

-----------------------------------------------------------------------------
(* The theorems.                                                            *)

\* Every step of the loop thread and of the runner keeps the invariant.
LEMMA NextIInv ==
    ASSUME "oversize" \notin Faults, IInv, [Next]_vars
    PROVE  IInv'
  <1>1. ~AbortStreamTooLarge /\ ~TrackError
    BY DEF AbortStreamTooLarge, TrackError, IInv, NoErrors
  <1>2. CASE Dispatch \/ Track \/ Emit \/ EmitEnd
    BY <1>2, DispatchStep, TrackStep, EmitStep, EmitEndStep
  <1>3. CASE \E kind \in {"handlerTimeout", "clientError"} : Retire(kind)
    BY <1>3, RetireStep
  <1>4. CASE Disconnect \/ WriteStreamHead
    BY <1>4, DisconnectStep, WriteStreamHeadStep
  <1>5. CASE OnHead \/ OnChunk
    BY <1>5, OnHeadStep, OnChunkStep
  <1>6. CASE \E kind \in {"handlerTimeout", "clientDisconnect", "clientError"} : OnEvent(kind)
    BY <1>6, OnEventStep
  <1>7. CASE Deliver \/ FinishStream \/ CompleteAnswer
    BY <1>7, DeliverStep, FinishStreamStep, CompleteAnswerStep
  <1>8. CASE UNCHANGED vars
    <2>0. TypeOK'
      <3>1. EngineTypes'
        BY <1>8, TypeParts, SMTT(30) DEF vars, IInv, EngineTypes
      <3>2. LogTypes' /\ RunnerTypes'
        BY <1>8, TypeParts, SMTT(30) DEF vars, IInv, LogTypes, RunnerTypes
      <3>3. QED
        BY <3>1, <3>2, TypeParts, SMTT(30)
    <2>1. NoErrors' /\ QueueFollows' /\ FreedWereCopied'
      BY <1>8, SMTT(30) DEF vars, IInv, NoErrors, QueueFollows, FreedWereCopied
    <2>2. FirstLog' /\ AnswerTookOut' /\ IdleIsQuiet' /\ EmptyLog'
      BY <1>8 DEF vars, IInv, FirstLog, AnswerTookOut, IdleIsQuiet, EmptyLog
    <2>3. QED
      BY <2>0, <2>1, <2>2 DEF IInv
  <1>9. QED
    BY <1>1, <1>2, <1>3, <1>4, <1>5, <1>6, <1>7, <1>8, SMTT(30) DEF Next

\* The invariant holds throughout, for any number of payloads, any mix of
\* routes, early answers, deadlines, disconnects, stalls and idle answers.
THEOREM Invariance ==
    ASSUME "oversize" \notin Faults
    PROVE  Spec => []IInv
  <1>1. IInv /\ [Next]_vars => IInv'
    BY NextIInv
  <1>2. QED
    BY <1>1, InitIInv, PTL DEF Spec

\* The runner never reads a freed payload (PendingTable.h:24-25), as long as
\* no upload is aborted for its size.
THEOREM NoReadAfterFreeHolds ==
    ASSUME "oversize" \notin Faults
    PROVE  Spec => []NoReadAfterFree
  <1>1. IInv => NoReadAfterFree
    <2> SUFFICES ASSUME IInv, NEW i \in DOMAIN chunks, chunks[i].kind # "end", ~completed
                 PROVE  chunks[i].payload \notin freed
      BY SMTT(30) DEF NoReadAfterFree
    <2>0. chunks[i].kind = "data"
      <3>1. chunks \in Seq(Message)
        BY DEF IInv, TypeOK
      <3>2. i \in 1 .. Len(chunks) /\ chunks[i] \in Message
        BY SMTT(30), <3>1
      <3>3. chunks[i].kind \in {"data", "error", "end"}
        BY SMTT(30), <3>2 DEF Message
      <3>4. QED
        BY <3>2, <3>3, ZenonT(30) DEF IInv, NoErrors
    <2>1. i \in 1 .. Len(chunks) /\ i \in Nat /\ i >= 1
      BY SMTT(30) DEF IInv, TypeOK
    <2>2. chunks[i].payload = ackCount + i /\ ackCount \in Nat
      BY <2>0, <2>1 DEF IInv, QueueFollows, TypeOK
    <2>3. \A p \in freed : p <= ackCount
      BY DEF IInv, FreedWereCopied
    <2>4. QED
      BY <2>1, <2>2, <2>3
  <1>2. QED
    BY <1>1, Invariance, PTL
=============================================================================
