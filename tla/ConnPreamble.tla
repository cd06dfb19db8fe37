---------------------------- MODULE ConnPreamble ----------------------------
(***************************************************************************)
(* What comes before a connection's first request: the balancer's PROXY    *)
(* header, the TLS handshake and the choice between HTTP/1.1 and HTTP/2.   *)
(* readCb takes the bytes as the socket gives them, cut anywhere, the      *)
(* stages' bytes glued together in one read or a stage spread over many.   *)
(*                                                                         *)
(* A client is what it means to send: a PROXY header, with TLS or without, *)
(* the protocol it offers and the bytes of its application.  Bytes are     *)
(* numbers; a word of a version-1 header is one number.  TLS is external:  *)
(* a handshake of HelloLength bytes, then one record of two bytes for each *)
(* byte of the application.                                                *)
(***************************************************************************)
EXTENDS Integers, Sequences, FiniteSets, SequencesExt

CONSTANTS Clients,    \* [proxy, tls, alpn, app]
          MaxV1,      \* 106: the greatest length of a version-1 line
          HelloLength,
          ReadSizes,  \* how much a read takes, beside all there is
          Peer        \* the address of the socket

VARIABLES
  client, proxyProtocol, http2, \* the client, and the configuration
  taken,                        \* how many of its bytes have been read
  proxyBuf, proxyDone, clientIp,\* c->proxyBuf, c->proxyDone, c->clientIp
  rbio, tlsHandshakeDone,       \* the SSL engine's input; c->tlsHandshakeDone
  plain,                        \* c->buf: bytes of the application not yet in a session
  h1,                           \* the HTTP/1.1 parser has had a head
  h2,                           \* what c->h2 was fed; <<-1>> when there is no session
  gone                          \* c->closing

preambleVars == <<client, proxyProtocol, http2, taken, proxyBuf, proxyDone, clientIp,
                  rbio, tlsHandshakeDone, plain, h1, h2, gone>>

Min2(a, b) == IF a < b THEN a ELSE b
NoSession == <<-1>>
V2Sig == <<13, 10, 13, 10, 0, 13, 10, 81, 85, 73, 84, 10>>
V1Sig == <<80, 82, 79, 88, 89, 32>>
Space == 32
UNKNOWN == 201
TCP4 == 202
TCP6 == 203
Addresses4 == {211, 212}
Addresses6 == {221, 222}
Ports == {230}
Preface == <<80, 82, 73, 32, 42, 32, 72, 84, 84, 80, 47, 50, 46, 48, 13, 10, 13, 10, 83, 77, 13, 10, 13, 10>>

(***************************************************************************)
(* The client's bytes.  proxy is [v |-> 0] (none), [v |-> 1, words] or     *)
(* [v |-> 2, verCmd, af, len, src]                                         *)
(***************************************************************************)
ProxyBytes(p) ==
  CASE p.v = 0 -> <<>>
    [] p.v = 1 -> V1Sig \o FlattenSeq([i \in 1 .. Len(p.words) |-> (IF i = 1 THEN <<>> ELSE <<Space>>) \o <<p.words[i]>>])
                  \o <<13, 10>>
    [] p.v = 2 -> V2Sig \o <<p.verCmd, 16 * p.af + 1, 0, p.len>> \o [i \in 1 .. p.len |-> IF i = 1 THEN p.src ELSE 0]
Sealed(app) == FlattenSeq([i \in 1 .. Len(app) |-> <<0, app[i]>>])
WireOf(c) == ProxyBytes(c.proxy)
             \o (IF c.tls THEN [i \in 1 .. HelloLength |-> 22] \o Sealed(c.app) ELSE c.app)

(***************************************************************************)
(* uvParseProxyHeader: the verdict, the bytes used and the address (0: the *)
(* socket's)                                                               *)
(***************************************************************************)
Header(r, used, ip) == [r |-> r, used |-> used, ip |-> ip]
Wait == Header(0, 0, 0)
Malformed == Header(-1, 0, 0)

ParseV2(b) ==
  LET len == 256 * b[15] + b[16]
      af == b[14] \div 16
  IN IF Len(b) < 16 THEN Wait
     ELSE IF b[13] \div 16 # 2 THEN Malformed
     ELSE IF Len(b) < 16 + len THEN Wait
     ELSE IF b[13] % 16 = 0 THEN Header(1, 16 + len, 0)
     ELSE IF \/ b[13] % 16 # 1 \/ af \notin {0, 1, 2}
             \/ (af = 1 /\ len < 12) \/ (af = 2 /\ len < 36)
       THEN Malformed
     ELSE Header(1, 16 + len, IF af = 0 THEN 0 ELSE b[17])

\* The words between the blanks of b, from pos up to the line's end at eol.
Words(b, pos, eol) ==
  FoldLeft(LAMBDA ws, c : IF c = Space THEN Append(ws, <<>>) ELSE [ws EXCEPT ![Len(ws)] = Append(@, c)],
           << <<>> >>, SubSeq(b, pos, eol - 1))

ParseV1(b) ==
  LET ends == {i \in 1 .. Len(b) - 1 : b[i] = 13 /\ b[i + 1] = 10}
      eol == CHOOSE i \in ends : \A j \in ends : i <= j
      tok == Words(b, 7, eol)
      known == IF tok[1] = <<TCP4>> THEN Addresses4 ELSE IF tok[1] = <<TCP6>> THEN Addresses6 ELSE {}
      is(i, set) == Len(tok[i]) = 1 /\ tok[i][1] \in set
  IN IF ends = {} THEN IF Len(b) >= MaxV1 + 2 THEN Malformed ELSE Wait
     ELSE IF eol - 1 > MaxV1 THEN Malformed
     ELSE IF tok[1] = <<UNKNOWN>> THEN Header(1, eol + 1, 0)
     ELSE IF /\ Len(tok) = 5 /\ is(2, known) /\ is(3, known) /\ is(4, Ports) /\ is(5, Ports)
       THEN Header(1, eol + 1, tok[2][1])
     ELSE Malformed

ParseProxyHeader(b) ==
  IF IsPrefix(V2Sig, b) THEN ParseV2(b)
  ELSE IF IsPrefix(SubSeq(V1Sig, 1, Min2(Len(b), 6)), b) THEN ParseV1(b)
  ELSE IF Len(b) < 12 /\ IsPrefix(b, V2Sig) THEN Wait
  ELSE Malformed

(***************************************************************************)
(* processConn before the first request, tlsOnRead, readCb                 *)
(***************************************************************************)
\* A whole head is there for the HTTP/1.1 parser.
HeadIn(b) == \E i \in 1 .. Len(b) - 3 : SubSeq(b, i, i + 3) = <<13, 10, 13, 10>>

\* The buffer and the session after the connection's bytes b are looked at, and
\* whether a request was parsed.
ProcessConn(b, session, tls) ==
  IF session # NoSession THEN <<<<>>, session \o b, FALSE>>
  ELSE IF http2 /\ ~tls /\ IsPrefix(Preface, b) THEN <<<<>>, b, FALSE>>
  ELSE IF http2 /\ ~tls /\ IsPrefix(b, Preface) THEN <<b, session, FALSE>>
  ELSE <<b, session, HeadIn(b)>>

\* SSL_read: the bytes of the whole records of what has come.
Opened(b) == [i \in 1 .. Len(b) \div 2 |-> b[2 * i]]
Unopened(b) == IF Len(b) % 2 = 0 THEN <<>> ELSE <<Last(b)>>

\* reactorAlpnSelect: h2 is offered, and taken up, only while the server speaks it.
Alpn(offered, on) == on /\ offered = "h2"

TlsOnRead(d) ==
  LET cipher == rbio \o d
      done == tlsHandshakeDone \/ Len(cipher) >= HelloLength
      records == IF tlsHandshakeDone THEN cipher ELSE SubSeq(cipher, HelloLength + 1, Len(cipher))
      session == IF ~tlsHandshakeDone /\ Alpn(client.alpn, http2) THEN <<>> ELSE h2
      now == ProcessConn(plain \o Opened(records), session, TRUE)
  IN IF done
       THEN /\ tlsHandshakeDone' = TRUE /\ rbio' = Unopened(records)
            /\ plain' = now[1] /\ h2' = now[2] /\ h1' = now[3]
       ELSE rbio' = cipher /\ UNCHANGED <<tlsHandshakeDone, plain, h1, h2>>

PlainOnRead(d) ==
  LET now == ProcessConn(plain \o d, h2, FALSE)
  IN plain' = now[1] /\ h2' = now[2] /\ h1' = now[3] /\ UNCHANGED <<rbio, tlsHandshakeDone>>

Proceed(d) == IF client.tls THEN TlsOnRead(d) ELSE PlainOnRead(d)

PreambleInit ==
  /\ client \in Clients /\ proxyProtocol = (client.proxy.v # 0) /\ http2 \in BOOLEAN
  /\ taken = 0 /\ proxyBuf = <<>> /\ proxyDone = FALSE /\ clientIp = Peer
  /\ rbio = <<>> /\ tlsHandshakeDone = FALSE /\ plain = <<>> /\ h1 = FALSE /\ h2 = NoSession /\ gone = FALSE

\* What was read behind the header: forgotten, and kept.
SlipCarry(b, used) == <<>>
Carry(b, used) == SubSeq(b, used + 1, Len(b))

\* From the first request on the connection is AnswerPath's.
ReadPreamble(n) ==
  LET d == SubSeq(WireOf(client), taken + 1, taken + n)
      all == proxyBuf \o d
      p == ParseProxyHeader(all)
      carry == Carry(all, p.used)
  IN /\ ~gone /\ ~h1 /\ taken + n <= Len(WireOf(client)) /\ taken' = taken + n
     /\ IF proxyProtocol /\ ~proxyDone
          THEN /\ gone' = (p.r < 0)
               /\ proxyBuf' = IF p.r = 0 THEN all ELSE <<>>
               /\ proxyDone' = (p.r = 1)
               /\ clientIp' = IF p.r = 1 /\ p.ip # 0 THEN p.ip ELSE clientIp
               /\ IF p.r = 1 /\ carry # <<>> THEN Proceed(carry)
                  ELSE UNCHANGED <<rbio, tlsHandshakeDone, plain, h1, h2>>
          ELSE Proceed(d) /\ UNCHANGED <<gone, proxyBuf, proxyDone, clientIp>>
     /\ UNCHANGED <<client, proxyProtocol, http2>>

PreambleNext == \E n \in ReadSizes \cup {Len(WireOf(client)) - taken} : n > 0 /\ ReadPreamble(n)

(***************************************************************************)
(* Properties                                                              *)
(***************************************************************************)
\* PROXY protocol, as its specification has it.
SoundProxy(p) ==
  CASE p.v = 0 -> TRUE
    [] p.v = 1 -> \/ p.words[1] = UNKNOWN
                  \/ /\ Len(p.words) = 5 /\ p.words[4] \in Ports /\ p.words[5] \in Ports
                     /\ \/ p.words[1] = TCP4 /\ {p.words[2], p.words[3]} \subseteq Addresses4
                        \/ p.words[1] = TCP6 /\ {p.words[2], p.words[3]} \subseteq Addresses6
    [] p.v = 2 -> \/ p.verCmd = 32
                  \/ p.verCmd = 33 /\ (p.af = 0 \/ (p.af = 1 /\ p.len >= 12) \/ (p.af = 2 /\ p.len >= 36))
Named4(p) == CASE p.v = 0 -> Peer
               [] p.v = 1 -> IF p.words[1] = UNKNOWN THEN Peer ELSE p.words[2]
               [] p.v = 2 -> IF p.verCmd = 32 \/ p.af = 0 THEN Peer ELSE p.src

\* A sound header is never refused, a malformed one always is once it has all
\* come, and no byte of the application is looked at before the client's
\* address is the one the header names (readCb, uvParseProxyHeader).
ClientKnownFirst ==
  /\ gone => ~SoundProxy(client.proxy)
  /\ taken >= Len(ProxyBytes(client.proxy)) /\ proxyProtocol => gone \/ proxyDone
  /\ proxyDone => SoundProxy(client.proxy)
  /\ (plain # <<>> \/ h2 # NoSession) => clientIp = Named4(client.proxy)

\* However the stages are cut and glued, every byte of the application that
\* has come whole reaches the request parser or the session, once and in order
\* (readCb's carry, tlsOnRead, processConn).
NothingLost ==
  LET before == Len(ProxyBytes(client.proxy)) + (IF client.tls THEN HelloLength ELSE 0)
      come == IF taken <= before THEN 0
              ELSE IF client.tls THEN (taken - before) \div 2 ELSE taken - before
  IN ~gone => (IF h2 = NoSession THEN plain ELSE h2 \o plain) = SubSeq(client.app, 1, come)

\* A connection speaks HTTP/2 exactly when the server does and the client
\* chose it, by ALPN under TLS and by the preface otherwise: the preface, which
\* has a whole head in it, is never parsed as a request however it is cut, and
\* a client of HTTP/1.1 is parsed as soon as its head is there (processConn,
\* reactorAlpnSelect).
RightProtocol ==
  LET meant == http2 /\ (IF client.tls THEN client.alpn = "h2" ELSE IsPrefix(Preface, client.app))
  IN /\ h2 # NoSession => meant
     /\ h1 => ~meant
     /\ ~meant /\ HeadIn(plain) => h1
     /\ meant /\ taken = Len(WireOf(client)) /\ ~gone => h2 # NoSession

\* The layers before the first request hand over every byte, to the protocol the
\* client speaks, with the client's address known.
PreambleHandsOver == ClientKnownFirst /\ NothingLost /\ RightProtocol
=============================================================================
