------------------------------ MODULE WsFrames ------------------------------
(***************************************************************************)
(* The byte-level functions of WsCodec.h: the frame header parser, run     *)
(* over what a connection has buffered after every read, the server's      *)
(* frame encoder, the UTF-8 check of text messages, header values and      *)
(* close reasons, and the base64 of the handshake's answer.                *)
(*                                                                         *)
(* A frame is what a client meant; HeaderBytes is how RFC 6455 writes it.  *)
(* A text is any short sequence of bytes.                                  *)
(***************************************************************************)
EXTENDS Integers, Sequences, FiniteSets, SequencesExt

CONSTANTS Frames,      \* [fin, rsv, op, size, masked]; rsv 0..7, size Nat or TopBit
          TextBytes,   \* the bytes of texts
          MaxText,     \* their greatest length
          TopBit       \* a 64-bit size with its top bit set

VARIABLES
  frame, allowRsv1, \* the frame on the wire, and whether deflate was negotiated
  cut,              \* how many bytes of it (a payload byte included) were read
  text              \* a text, byte by byte

frameVars == <<frame, allowRsv1, cut, text>>

IsControl(op) == op >= 8
Data == {0, 1, 2}
Opcodes == Data \cup {8, 9, 10}

\* A number's bytes, most significant first.
BigEndian(n, width) == [i \in 1 .. width |-> (n \div 256 ^ (width - i)) % 256]

(***************************************************************************)
(* The wire, as RFC 6455 has it                                            *)
(***************************************************************************)
Mask == <<1, 2, 3, 4>>
SizeBytes(f, m) ==
  IF f.size = TopBit THEN <<m + 127, 128, 0, 0, 0, 0, 0, 0, 0>>
  ELSE IF f.size < 126 THEN <<m + f.size>>
  ELSE IF f.size <= 65535 THEN <<m + 126>> \o BigEndian(f.size, 2)
  ELSE <<m + 127, 0, 0, 0, 0>> \o BigEndian(f.size, 4)
HeaderBytes(f) ==
  <<(IF f.fin THEN 128 ELSE 0) + 16 * f.rsv + f.op>>
  \o SizeBytes(f, IF f.masked THEN 128 ELSE 0)
  \o (IF f.masked THEN Mask ELSE <<>>)
Wire(f) == HeaderBytes(f) \o <<255>>

(***************************************************************************)
(* parseHeader, encodeFrame                                                *)
(***************************************************************************)
NoHeader == [ok |-> FALSE]

ParseHeader(d, rsv1) ==
  LET opcode == d[1] % 16
      fin == d[1] >= 128
      rsv1Set == (d[1] \div 64) % 2 = 1
      masked == d[2] >= 128
      short == d[2] % 128
      more == IF short = 126 THEN 2 ELSE IF short = 127 THEN 8 ELSE 0
      pos == 2 + more
      length == IF more = 0 THEN short
                ELSE FoldLeft(LAMBDA n, b : 256 * n + b, 0, SubSeq(d, 3, pos))
      headerSize == IF masked THEN pos + 4 ELSE pos
  IN IF \/ Len(d) < 2
        \/ (d[1] \div 16) % 4 # 0
        \/ rsv1Set /\ (~rsv1 \/ IsControl(opcode))
        \/ opcode \notin Opcodes
        \/ Len(d) < pos
        \/ more = 8 /\ d[3] >= 128
        \/ IsControl(opcode) /\ (~fin \/ length > 125)
        \/ Len(d) < headerSize
       THEN NoHeader
       ELSE [ok |-> TRUE, fin |-> fin, rsv1 |-> rsv1Set, opcode |-> opcode,
             masked |-> masked, length |-> length, headerSize |-> headerSize]

\* The frame's header; the payload follows it.  The 16-bit form one size short.
SlipEncodeFrame(op, n, fin) ==
  <<(IF fin THEN 128 ELSE 0) + (op % 16)>>
  \o (IF n < 127 THEN <<n>> ELSE IF n < 65535 THEN <<126>> \o BigEndian(n, 2)
      ELSE <<127, 0, 0, 0, 0>> \o BigEndian(n, 4))

EncodeFrame(op, n, fin) ==
  <<(IF fin THEN 128 ELSE 0) + (op % 16)>>
  \o (IF n < 126 THEN <<n>> ELSE IF n <= 65535 THEN <<126>> \o BigEndian(n, 2)
      ELSE <<127, 0, 0, 0, 0>> \o BigEndian(n, 4))

(***************************************************************************)
(* validUtf8                                                               *)
(***************************************************************************)
Continues(b) == b \div 64 = 2
\* The code point a lead byte and its continuation bytes spell.
CodePoint(t, i, need) ==
  FoldLeft(LAMBDA cp, b : 64 * cp + (b % 64),
           CASE need = 0 -> t[i] [] need = 1 -> t[i] % 32 [] need = 2 -> t[i] % 16 [] need = 3 -> t[i] % 8,
           SubSeq(t, i + 1, i + need))
\* -1: no lead byte of UTF-8.
Need(c) ==
  CASE c < 128 -> 0
    [] c \div 32 = 6 -> IF c < 194 THEN -1 ELSE 1
    [] c \div 16 = 14 -> 2
    [] c \div 8 = 30 -> IF c > 244 THEN -1 ELSE 3
    [] OTHER -> -1

Spelled(cp, need) ==
  /\ need = 2 => cp >= 2048 /\ cp \notin 55296 .. 57343
  /\ need = 3 => cp >= 65536

RECURSIVE ValidFrom(_, _)
ValidFrom(t, i) ==
  LET need == Need(t[i]) IN
  \/ i > Len(t)
  \/ /\ need >= 0 /\ i + need <= Len(t)
     /\ \A j \in 1 .. need : Continues(t[i + j])
     /\ Spelled(CodePoint(t, i, need), need)
     /\ ValidFrom(t, i + 1 + need)
ValidUtf8(t) == ValidFrom(t, 1)

(***************************************************************************)
(* base64Encode; a character is its place in the alphabet, 64 is "="       *)
(***************************************************************************)
Group(t, i) ==
  LET at(j) == IF j <= Len(t) THEN t[j] ELSE 0
      triple == 65536 * at(i) + 256 * at(i + 1) + at(i + 2)
  IN <<triple \div 262144, (triple \div 4096) % 64,
       IF i + 1 <= Len(t) THEN (triple \div 64) % 64 ELSE 64,
       IF i + 2 <= Len(t) THEN triple % 64 ELSE 64>>
Base64Encode(t) == FlattenSeq([k \in 1 .. (Len(t) + 2) \div 3 |-> Group(t, 3 * k - 2)])

\* RFC 4648 read backwards: the bits of the characters, cut into bytes.
Bits(c) == [i \in 1 .. 6 |-> (c \div 2 ^ (6 - i)) % 2]
Base64Decode(s) ==
  LET bits == FlattenSeq([i \in 1 .. Len(s) |-> IF s[i] = 64 THEN <<>> ELSE Bits(s[i])])
  IN [k \in 1 .. Len(bits) \div 8 |->
        FoldLeft(LAMBDA n, b : 2 * n + b, 0, SubSeq(bits, 8 * k - 7, 8 * k))]

(***************************************************************************)
(* One more byte of the frame, or of the text                              *)
(***************************************************************************)
FrameInit == frame \in Frames /\ allowRsv1 \in BOOLEAN /\ cut = 0 /\ text = <<>>
TextInit == frame \in {CHOOSE f \in Frames : TRUE} /\ allowRsv1 = FALSE /\ cut = 0 /\ text = <<>>
FrameGrows == /\ cut < Len(Wire(frame)) /\ cut' = cut + 1
              /\ UNCHANGED <<frame, allowRsv1, text>>
TextGrows == /\ Len(text) < MaxText
             /\ \E b \in TextBytes : text' = Append(text, b)
             /\ UNCHANGED <<frame, allowRsv1, cut>>

(***************************************************************************)
(* Properties                                                              *)
(***************************************************************************)
\* What RFC 6455 allows a peer to send on this session.
Legal(f) ==
  /\ f.op \in Opcodes /\ f.size # TopBit
  /\ f.rsv = 0 \/ (f.rsv = 4 /\ allowRsv1 /\ f.op \in Data)
  /\ f.op \notin Data => f.fin /\ f.size <= 125

\* However a frame is cut into reads, its header is taken as soon as its last
\* byte has come and not before, with every field as the client meant it, and
\* what follows changes nothing; an illegal frame's header is never taken
\* (parseHeader, run over the buffered bytes after each read).
HeaderExact ==
  LET h == ParseHeader(SubSeq(Wire(frame), 1, cut), allowRsv1) IN
  IF Legal(frame) /\ cut >= Len(HeaderBytes(frame))
    THEN h = [ok |-> TRUE, fin |-> frame.fin, rsv1 |-> frame.rsv = 4, opcode |-> frame.op,
              masked |-> frame.masked, length |-> frame.size, headerSize |-> Len(HeaderBytes(frame))]
    ELSE ~h.ok

\* What the server sends a client reads back as the same frame, at every size
\* where the length takes another form (encodeFrame, against parseHeader).
ServerFramesReadBack ==
  frame.size # TopBit /\ Legal(frame) =>
    LET bytes == EncodeFrame(frame.op, frame.size, frame.fin)
    IN ParseHeader(bytes, FALSE) =
         [ok |-> TRUE, fin |-> frame.fin, rsv1 |-> FALSE, opcode |-> frame.op, masked |-> FALSE,
          length |-> frame.size, headerSize |-> Len(bytes)]

\* The shortest spelling of a code point, surrogates apart, up to `last`.
Spells(u, last) ==
  LET need == Len(u) - 1
      cp == CodePoint(u, 1, need)
      least == <<0, 128, 2048, 65536>>
  IN /\ u[1] \in (CASE need = 0 -> 0 .. 127 [] need = 1 -> 192 .. 223
                    [] need = 2 -> 224 .. 239 [] need = 3 -> 240 .. 247)
     /\ \A j \in 2 .. Len(u) : Continues(u[j])
     /\ cp \in least[Len(u)] .. last /\ cp \notin 55296 .. 57343
RECURSIVE Utf8Upto(_, _)
Utf8Upto(t, last) ==
  t = <<>> \/ \E n \in 1 .. 4 : /\ n <= Len(t) /\ Spells(SubSeq(t, 1, n), last)
                                /\ Utf8Upto(SubSeq(t, n + 1, Len(t)), last)

\* A text passes exactly when it can be cut into shortest forms of scalar
\* values, with U+13FFFF for the last of them: the check bounds the lead byte,
\* 0xF4, and not what follows it (validUtf8).
Utf8Exact == ValidUtf8(text) <=> Utf8Upto(text, 1310719)

\* The same with Unicode's own last code point, U+10FFFF.
Utf8Strict == ValidUtf8(text) <=> Utf8Upto(text, 1114111)

\* The handshake's digest survives its encoding, whatever its length is modulo
\* three: decoding by bits gives the bytes back (base64Encode).
Base64ReadsBack ==
  LET s == Base64Encode(text)
  IN Base64Decode(s) = text /\ Len(s) % 4 = 0 /\ \A i \in 1 .. Len(s) - 2 : s[i] # 64

\* Frames, their text and the handshake's digest read back as they were written.
FramesExact == HeaderExact /\ ServerFramesReadBack /\ Utf8Exact /\ Base64ReadsBack
=============================================================================
