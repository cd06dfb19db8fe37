---------------------------- MODULE ChunkedBody ----------------------------
(***************************************************************************)
(* The two decoders of a chunked request body: decodeChunked, which is run *)
(* over the whole buffered request after every read, and                   *)
(* emitStreamChunked, which keeps its place between reads and passes data  *)
(* on as it comes.  One message is read by both, cut into reads anywhere.  *)
(*                                                                         *)
(* A message is what a client meant (chunks, extension, trailers, what     *)
(* follows on the connection, a defect); Encode is its bytes.  Bytes are   *)
(* one-character strings, "CR" and "LF".                                   *)
(***************************************************************************)
EXTENDS Integers, Sequences, FiniteSets, SequencesExt

CONSTANTS Messages,          \* [chunks, ext, trailers, rest, defect]
          MaxBody,           \* the route's body cap
          Slack,             \* 1024: framing allowed over the cap
          MaxTrailerBytes, MaxTrailerLines, \* kMaxTrailerBytes, kMaxTrailerLines
          MaxDigits          \* 15: hex digits of a chunk size

VARIABLES
  message,   \* what the client sends
  received,  \* how many of its bytes have been read
  verdict,   \* of decodeChunked over what was read: 0, 1, -1, -2
  body, end, \* what it decoded and where the message ended
  stream     \* emitStreamChunked: [buf, remaining, needCrlf, total, out, state]

chunkVars == <<message, received, verdict, body, end, stream>>

CRLF == <<"CR", "LF">>
Hex == ("0" :> 0) @@ ("1" :> 1) @@ ("2" :> 2) @@ ("3" :> 3)
Control == {"CR", "LF", "NUL"}

\* The bytes of a message, with its defect.
Line(m, size) ==
  CASE m.defect = "empty size" -> m.ext \o CRLF
    [] m.defect = "junk size" -> <<size, "G">> \o CRLF
    [] m.defect = "long size" -> [i \in 1 .. MaxDigits + 1 |-> size] \o CRLF
    [] m.defect = "control" -> <<size, ";", "NUL">> \o CRLF
    [] OTHER -> <<size>> \o m.ext \o CRLF
DigitOf(n) == CHOOSE d \in DOMAIN Hex : Hex[d] = n
Encode(m) ==
  FlattenSeq([i \in 1 .. Len(m.chunks) |->
                Line(m, DigitOf(Len(m.chunks[i]))) \o m.chunks[i]
                \o (IF m.defect = "no crlf" THEN <<"G", "G">> ELSE CRLF)])
  \o <<"0">> \o CRLF \o FlattenSeq([i \in 1 .. m.trailers |-> <<"t">> \o CRLF]) \o CRLF \o m.rest

BodyOf(m) == FlattenSeq(m.chunks)
\* The message's last byte, the pipelined rest apart.
EndOf(m) == Len(Encode(m)) - Len(m.rest)

\* std::string::find("\r\n", pos): 0 when there is none.
Find(b, pos) ==
  LET at == {i \in pos .. Len(b) - 1 : b[i] = "CR" /\ b[i + 1] = "LF"}
  IN IF at = {} THEN 0 ELSE CHOOSE i \in at : \A j \in at : i <= j

\* uvChunkSize: hex digits, then nothing or an extension without controls.
ChunkSize(b, pos, eol) ==
  LET stops == {i \in pos .. eol - 1 : b[i] \notin DOMAIN Hex} \cup {eol}
      stop == CHOOSE i \in stops : \A j \in stops : i <= j
  IN IF \/ stop - pos = 0 \/ stop - pos > MaxDigits
        \/ stop < eol /\ (b[stop] # ";" \/ \E i \in stop .. eol - 1 : b[i] \in Control)
       THEN -1
       ELSE FoldLeft(LAMBDA size, d : 16 * size + Hex[d], 0, SubSeq(b, pos, stop - 1))

(***************************************************************************)
(* decodeChunked                                                           *)
(***************************************************************************)
Decoded(v, out, at) == [verdict |-> v, out |-> out, end |-> at]
Incomplete(b, out) == Decoded(IF Len(b) > MaxBody + Slack THEN -2 ELSE 0, out, 0)

RECURSIVE Trailers(_, _, _, _, _)
Trailers(b, pos, t, lines, out) ==
  LET e == Find(b, t)
  IN IF e = 0
       THEN IF Len(b) - (pos - 1) > MaxTrailerBytes THEN Decoded(-1, out, 0) ELSE Incomplete(b, out)
     ELSE IF e = t THEN Decoded(1, out, t + 1)
     ELSE IF lines + 1 > MaxTrailerLines \/ e - pos > MaxTrailerBytes THEN Decoded(-1, out, 0)
     ELSE Trailers(b, pos, e + 2, lines + 1, out)

\* Data whose closing CRLF is taken for granted.
RECURSIVE SlipChunks(_, _, _)
SlipChunks(b, pos, out) ==
  LET eol == Find(b, pos)
      size == IF eol = 0 THEN 0 ELSE ChunkSize(b, pos, eol)
      data == eol + 2
      next == data + size
  IN IF eol = 0 THEN Incomplete(b, out)
     ELSE IF size < 0 THEN Decoded(-1, out, 0)
     ELSE IF size = 0 THEN Trailers(b, data, data, 0, out)
     ELSE IF Len(out) + size > MaxBody THEN Decoded(-2, out, 0)
     ELSE IF Len(b) < next + 1 THEN Incomplete(b, out)
     ELSE SlipChunks(b, next + 2, out \o SubSeq(b, data, next - 1))

RECURSIVE Chunks(_, _, _)
Chunks(b, pos, out) ==
  LET eol == Find(b, pos)
      size == IF eol = 0 THEN 0 ELSE ChunkSize(b, pos, eol)
      data == eol + 2
      next == data + size
  IN IF eol = 0 THEN Incomplete(b, out)
     ELSE IF size < 0 THEN Decoded(-1, out, 0)
     ELSE IF size = 0 THEN Trailers(b, data, data, 0, out)
     ELSE IF Len(out) + size > MaxBody THEN Decoded(-2, out, 0)
     ELSE IF Len(b) < next + 1 THEN Incomplete(b, out)
     ELSE IF SubSeq(b, next, next + 1) # CRLF THEN Decoded(-1, out, 0)
     ELSE Chunks(b, next + 2, out \o SubSeq(b, data, next - 1))

DecodeChunked(b) == Chunks(b, 1, <<>>)

(***************************************************************************)
(* emitStreamChunked: s is what the connection keeps between reads, pass   *)
(* what this read has decoded and not yet emitted                          *)
(***************************************************************************)
From(b, i) == SubSeq(b, i, Len(b))
Stops(s, pass, state) ==
  [s EXCEPT !.state = state, !.out = IF state \in {"bad", "too large"} THEN @ ELSE @ \o pass]

\* A trailer budget one line short.
RECURSIVE SlipStreamTrailers(_, _, _, _, _)
SlipStreamTrailers(s, eol, t, lines, pass) ==
  LET e == Find(s.buf, t)
  IN IF e = 0 THEN Stops(s, pass, IF Len(s.buf) - (eol + 1) > MaxTrailerBytes THEN "bad" ELSE "reading")
     ELSE IF e = t THEN Stops([s EXCEPT !.buf = From(@, t + 2)], pass, "done")
     ELSE IF lines + 1 >= MaxTrailerLines THEN Stops(s, pass, "bad")
     ELSE SlipStreamTrailers(s, eol, e + 2, lines + 1, pass)

RECURSIVE StreamTrailers(_, _, _, _, _)
StreamTrailers(s, eol, t, lines, pass) ==
  LET e == Find(s.buf, t)
  IN IF e = 0 THEN Stops(s, pass, IF Len(s.buf) - (eol + 1) > MaxTrailerBytes THEN "bad" ELSE "reading")
     ELSE IF e = t THEN Stops([s EXCEPT !.buf = From(@, t + 2)], pass, "done")
     ELSE IF lines + 1 > MaxTrailerLines THEN Stops(s, pass, "bad")
     ELSE StreamTrailers(s, eol, e + 2, lines + 1, pass)

\* A decoder that takes all there is for the chunk's data.
RECURSIVE SlipStreamLoop(_, _)
SlipStreamLoop(s, pass) ==
  LET eol == Find(s.buf, 1)
      size == IF eol = 0 THEN 0 ELSE ChunkSize(s.buf, 1, eol)
  IN IF s.needCrlf \/ s.buf = <<>> THEN Stops(s, pass, "reading")
     ELSE IF s.remaining = 0
       THEN IF eol = 0 THEN Stops(s, pass, "reading")
            ELSE IF size < 0 THEN Stops(s, pass, "bad")
            ELSE IF size = 0 THEN StreamTrailers(s, eol, eol + 2, 0, pass)
            ELSE SlipStreamLoop([s EXCEPT !.buf = From(@, eol + 2), !.remaining = size], pass)
     ELSE Stops([s EXCEPT !.buf = <<>>, !.remaining = 0, !.needCrlf = TRUE], pass \o s.buf, "reading")

RECURSIVE StreamLoop(_, _)
StreamLoop(s, pass) ==
  LET eol == Find(s.buf, 1)
      size == IF eol = 0 THEN 0 ELSE ChunkSize(s.buf, 1, eol)
      take == IF s.remaining < Len(s.buf) THEN s.remaining ELSE Len(s.buf)
      taken == [s EXCEPT !.buf = From(@, take + 1), !.remaining = @ - take,
                         !.needCrlf = s.remaining = take, !.total = @ + take]
  IN IF s.needCrlf
       THEN IF Len(s.buf) < 2 THEN Stops(s, pass, "reading")
            ELSE IF SubSeq(s.buf, 1, 2) # CRLF THEN Stops(s, pass, "bad")
            ELSE StreamLoop([s EXCEPT !.buf = From(@, 3), !.needCrlf = FALSE], pass)
     ELSE IF s.remaining = 0
       THEN IF eol = 0 THEN Stops(s, pass, IF Len(s.buf) > MaxTrailerBytes THEN "bad" ELSE "reading")
            ELSE IF size < 0 THEN Stops(s, pass, "bad")
            ELSE IF size = 0 THEN StreamTrailers(s, eol, eol + 2, 0, pass)
            ELSE StreamLoop([s EXCEPT !.buf = From(@, eol + 2), !.remaining = size], pass)
     ELSE IF take = 0 THEN Stops(s, pass, "reading")
     ELSE IF taken.total > MaxBody THEN Stops(taken, pass, "too large")
     ELSE StreamLoop(taken, pass \o SubSeq(s.buf, 1, take))

(***************************************************************************)
(* Reads                                                                   *)
(***************************************************************************)
ChunkInit ==
  /\ message \in Messages /\ received = 0 /\ verdict = 0 /\ body = <<>> /\ end = 0
  /\ stream = [buf |-> <<>>, remaining |-> 0, needCrlf |-> FALSE, total |-> 0, out |-> <<>>,
               state |-> "reading"]

\* onRead appends n bytes and runs the decoder; a decided message is not read on.
ReadChunked(n) ==
  LET wire == Encode(message)
      d == DecodeChunked(SubSeq(wire, 1, received + n))
      s == [stream EXCEPT !.buf = @ \o SubSeq(wire, received + 1, received + n)]
  IN /\ received + n <= Len(wire) /\ (verdict = 0 \/ stream.state = "reading")
     /\ received' = received + n
     /\ IF verdict = 0
          THEN verdict' = d.verdict /\ body' = d.out /\ end' = d.end
          ELSE UNCHANGED <<verdict, body, end>>
     /\ stream' = IF stream.state = "reading" THEN StreamLoop(s, <<>>) ELSE stream
     /\ UNCHANGED message

ChunkNext == \E n \in 1 .. Len(Encode(message)) - received : ReadChunked(n)

(***************************************************************************)
(* Properties                                                              *)
(***************************************************************************)
ChunkTypeOK ==
  /\ message \in Messages /\ received \in 0 .. Len(Encode(message))
  /\ verdict \in {0, 1, -1, -2} /\ end \in 0 .. received
  /\ stream.remaining \in Nat /\ stream.total \in 0 .. Len(Encode(message))
  /\ stream.state \in {"reading", "done", "bad", "too large"}

Sound(m) == m.defect = "none" \/ m.chunks = <<>>  \* defects are in chunks
Fits(m) == Len(BodyOf(m)) <= MaxBody

\* However a message is cut into reads, the buffered decoder accepts only a
\* sound one within the cap, gives its very body, and ends it at its last byte,
\* so that what is pipelined behind it is the next request (decodeChunked).
BufferedExact ==
  verdict = 1 => /\ Sound(message) /\ Fits(message)
                 /\ body = BodyOf(message) /\ end = EndOf(message)

\* The streaming decoder passes on nothing but the body, in order, whatever
\* the reads; when it is done it has passed on all of it and the rest of the
\* buffer is what was pipelined (emitStreamChunked).
StreamedExact ==
  /\ Sound(message) => IsPrefix(stream.out, BodyOf(message))
  /\ stream.state = "done" =>
       /\ Sound(message) /\ stream.out = BodyOf(message)
       /\ IsPrefix(stream.buf, message.rest)

\* The decoders never part ways on whether a message is sound: what one takes
\* the other does not call malformed, and a sound message all of which has
\* come leaves neither waiting (decodeChunked, emitStreamChunked).
DecodersAgree ==
  /\ ~(verdict = 1 /\ stream.state = "bad") /\ ~(verdict = -1 /\ stream.state = "done")
  /\ Sound(message) /\ received >= EndOf(message) => verdict # 0 /\ stream.state # "reading"

\* A body within the cap is never refused as too large.
WithinCapTaken == Sound(message) /\ Fits(message) => verdict # -2

\* Both decoders read exactly the body that was sent, however it is cut.
BodiesExact == ChunkTypeOK /\ BufferedExact /\ StreamedExact /\ DecodersAgree
=============================================================================
