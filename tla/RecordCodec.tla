---------------------------- MODULE RecordCodec ----------------------------
(***************************************************************************)
(* The binary records that cross between Dart and the engine: the native   *)
(* codecs of native.g.h, the Dart codecs of nitro_server.g.dart, and the   *)
(* header list of an answer, written by FastCalls into its own buffer and  *)
(* read by decodeHeaderList.                                               *)
(*                                                                         *)
(* A record is a function from field names to values.  Either side has its *)
(* own list of the fields in wire order.  Bytes are numbers, integers      *)
(* little-endian in 8 or 4 of them; a string is a sequence of characters,  *)
(* each written as one to three bytes.                                     *)
(***************************************************************************)
EXTENDS Integers, Sequences, FiniteSets, SequencesExt

CONSTANTS Samples,     \* 1 .. : ways to fill in a record
          Headers, MaxList, \* [name, value] of header lists, and how many
          MaxHeaders   \* 1024: the headers an answer may have

VARIABLES
  record, sample,  \* the record, and how it is filled in
  headerList,      \* an answer's headers
  have             \* how many bytes of the payload the reader is given

codecVars == <<record, sample, headerList, have>>

(***************************************************************************)
(* Bytes                                                                   *)
(***************************************************************************)
LittleEndian(n, width) ==
  [i \in 1 .. width |-> IF n < 0 THEN 255 ELSE IF i > 2 THEN 0 ELSE (n \div 256 ^ (i - 1)) % 256]
Huge == 65536
NumberOf(b) == IF \A i \in DOMAIN b : b[i] = 255 THEN -1
             ELSE IF \A i \in 3 .. Len(b) : b[i] = 0 THEN b[1] + 256 * b[2] ELSE Huge
Utf8Of == [c \in {"a", "b", "e'", "eur"} |->
             CASE c = "a" -> <<97>> [] c = "b" -> <<98>> [] c = "e'" -> <<195, 169>> [] c = "eur" -> <<226, 130, 172>>]
Text(s) == FlattenSeq([i \in 1 .. Len(s) |-> Utf8Of[s[i]]])

(***************************************************************************)
(* The fields in wire order                                                *)
(***************************************************************************)
Bools == {"hasBody", "bodyComplete", "wsCompression", "proxyProtocol", "http2", "keepAliveHeader",
          "isWebSocket", "streamBody"}
Strings == {"name", "value", "certPem", "keyPem", "certFile", "keyFile", "ciphers", "cipherSuites", "clientCaPem",
            "clientCaFile", "host", "customMethod", "pattern", "wsProtocols", "errorMessage", "path", "query",
            "packedHeaders", "routePattern", "clientIp", "message"}

RawHeader == <<"name", "value">>
RawTlsConfig == <<"certPem", "keyPem", "certFile", "keyFile", "minVersion", "ciphers", "cipherSuites",
                  "clientCaPem", "clientCaFile">>
RawServerConfig ==
  <<"host", "port", "backlog", "maxBodyBytes", "defaultTimeoutMs", "keepAliveTimeoutMs", "maxRequestsPerConn",
    "workerThreads", "maxConnections", "maxConnectionsPerIp", "headerTimeoutMs", "writeTimeoutMs", "wsMaxBufferBytes",
    "streamMaxBufferBytes", "streamIdleTimeoutMs", "maxBufferedBodyBytes", "wsCompression", "bodyTimeoutMs",
    "wsIdleTimeoutMs", "maxConnectionAgeMs", "maxInFlightRequests", "proxyProtocol", "http2", "keepAliveHeader">>
  \o RawTlsConfig
RawRouteConfig == <<"method", "customMethod", "pattern", "timeoutMs", "isWebSocket", "streamBody", "maxBodyBytes", "wsProtocols">>
RawServerStatus == <<"errorKind", "errorMessage", "boundPort">>
RawIncomingRequest ==
  <<"requestId", "method", "customMethod", "path", "query", "packedHeaders", "contentLength", "hasBody",
    "bodyComplete", "routePattern", "params", "clientIp">>
RawServerEvent == <<"kind", "requestId", "message">>
NativeFields(r) ==
  CASE r = "header" -> RawHeader [] r = "tls" -> RawTlsConfig [] r = "config" -> RawServerConfig
    [] r = "route" -> RawRouteConfig [] r = "status" -> RawServerStatus [] r = "request" -> RawIncomingRequest
    [] r = "event" -> RawServerEvent

DartFields(r) ==
  CASE r = "header" -> <<"name", "value">>
    [] r \in {"config", "tls"} ->
         (IF r = "tls" THEN <<>> ELSE
            <<"host", "port", "backlog", "maxBodyBytes", "defaultTimeoutMs", "keepAliveTimeoutMs",
              "maxRequestsPerConn", "workerThreads", "maxConnections", "maxConnectionsPerIp", "headerTimeoutMs",
              "writeTimeoutMs", "wsMaxBufferBytes", "streamMaxBufferBytes", "streamIdleTimeoutMs",
              "maxBufferedBodyBytes", "wsCompression", "bodyTimeoutMs", "wsIdleTimeoutMs", "maxConnectionAgeMs",
              "maxInFlightRequests", "proxyProtocol", "http2", "keepAliveHeader">>)
         \o <<"certPem", "keyPem", "certFile", "keyFile", "minVersion", "ciphers", "cipherSuites", "clientCaPem", "clientCaFile">>
    [] r = "route" -> <<"method", "customMethod", "pattern", "timeoutMs", "isWebSocket", "streamBody", "maxBodyBytes", "wsProtocols">>
    [] r = "status" -> <<"errorKind", "errorMessage", "boundPort">>
    [] r = "request" -> <<"requestId", "method", "customMethod", "path", "query", "packedHeaders", "contentLength",
                          "hasBody", "bodyComplete", "routePattern", "params", "clientIp">>
    [] r = "event" -> <<"kind", "requestId", "message">>

\* No two fields of a kind alike, so that a field read in another's place shows.
Value(field, i, s) ==
  CASE field \in Bools -> (i + s) % 2 = 0
    [] field \in Strings -> [k \in 1 .. (i + s) % 3 |-> IF s = 1 THEN "a" ELSE "e'"]
    [] field = "params" -> [k \in 1 .. s |-> [name |-> <<"b">>, value |-> IF s = 1 THEN <<>> ELSE <<"a", "b">>]]
    [] OTHER -> IF i = 3 THEN -1 ELSE 300 * s + i
Filled(r, s) == [f \in ToSet(DartFields(r)) |-> Value(f, CHOOSE i \in DOMAIN DartFields(r) : DartFields(r)[i] = f, s)]

(***************************************************************************)
(* NitroRecordWriter and NitroRecordReader; the Dart pair writes and reads *)
(* the same, in the order of its own fields                                *)
(***************************************************************************)
WriteString(s) == LittleEndian(Len(Text(s)), 4) \o Text(s)
WriteField(f, v) ==
  CASE f \in Bools -> <<IF v THEN 1 ELSE 0>>
    [] f \in Strings -> WriteString(v)
    [] f = "params" -> LittleEndian(Len(v), 4) \o FlattenSeq([i \in 1 .. Len(v) |-> WriteString(v[i].name) \o WriteString(v[i].value)])
    [] OTHER -> LittleEndian(v, 8)
WriteRecord(fields, v) == FlattenSeq([i \in 1 .. Len(fields) |-> WriteField(fields[i], v[fields[i]])])

\* A read: the place after it and what was read; -1 when the reader threw.
Got(at, v) == [at |-> at, v |-> v]
Threw == Got(-1, <<>>)

\* _require, then the bytes.  A negative length is a huge size_t, which either
\* fails the check or, wrapped around, is refused by std::string.
Take(b, at, n) == IF n < 0 \/ at + n > Len(b) THEN Threw ELSE Got(at + n, SubSeq(b, at + 1, at + n))
ReadNumber(b, at, width) ==
  LET t == Take(b, at, width) IN IF t.at < 0 THEN Threw ELSE Got(t.at, NumberOf(t.v))
ReadString(b, at) ==
  LET n == ReadNumber(b, at, 4) IN IF n.at < 0 THEN Threw ELSE Take(b, n.at, n.v)
ReadPair(b, at) ==
  LET name == ReadString(b, at)
      value == IF name.at < 0 THEN Threw ELSE ReadString(b, name.at)
  IN IF value.at < 0 THEN Threw ELSE Got(value.at, [name |-> name.v, value |-> value.v])
\* n pairs one behind the other.
ReadPairs(b, at, n) ==
  FoldLeft(LAMBDA acc, i : IF acc.at < 0 THEN acc
                           ELSE LET p == ReadPair(b, acc.at)
                                IN IF p.at < 0 THEN Threw ELSE Got(p.at, Append(acc.v, p.v)),
           Got(at, <<>>), [i \in 1 .. n |-> i])
ReadField(f, b, at) ==
  CASE f \in Bools -> LET t == Take(b, at, 1) IN IF t.at < 0 THEN Threw ELSE Got(t.at, t.v[1] # 0)
    [] f \in Strings -> ReadString(b, at)
    [] f = "params" -> LET n == ReadNumber(b, at, 4)
                       IN IF n.at < 0 \/ n.v < 0 THEN Threw ELSE ReadPairs(b, n.at, n.v)
    [] OTHER -> ReadNumber(b, at, 8)
\* The fields one behind the other: those of the first half, then the others.
RECURSIVE ReadFields(_, _, _)
ReadFields(fields, b, at) ==
  IF Len(fields) = 1
  THEN LET g == ReadField(fields[1], b, at) IN IF g.at < 0 THEN Threw ELSE Got(g.at, <<<<fields[1], g.v>>>>)
  ELSE LET half == Len(fields) \div 2
           first == ReadFields(SubSeq(fields, 1, half), b, at)
           rest == IF first.at < 0 THEN Threw ELSE ReadFields(SubSeq(fields, half + 1, Len(fields)), b, first.at)
       IN IF rest.at < 0 THEN Threw ELSE Got(rest.at, first.v \o rest.v)
ReadRecord(fields, b) == ReadFields(fields, b, 0)

(***************************************************************************)
(* Indexed lists: FastCalls.encodeHeaderList, decodeHeaderList,            *)
(* writeIndexedList and readIndexedList                                    *)
(***************************************************************************)
Pair(h) == WriteString(h.name) \o WriteString(h.value)
ItemAt(hs, i) == 4 + 8 * Len(hs) + Len(FlattenSeq([k \in 1 .. i - 1 |-> Pair(hs[k])]))
IndexedList(hs) ==
  LittleEndian(Len(hs), 4) \o FlattenSeq([i \in 1 .. Len(hs) |-> LittleEndian(ItemAt(hs, i), 8)])
  \o FlattenSeq([i \in 1 .. Len(hs) |-> Pair(hs[i])])
\* headerListBytes: what the buffer is grown to before the list is written.
HeaderListBytes(hs) ==
  8 + 8 * Len(hs) + FoldLeft(LAMBDA n, h : n + 8 + 3 * (Len(h.name) + Len(h.value)), 0, hs)

\* The table taken for the first items.
SlipDecodeHeaderList(b) ==
  LET n == ReadNumber(b, 0, 4) IN
  IF n.at < 0 \/ n.v < 0 \/ n.v > MaxHeaders THEN Threw ELSE ReadPairs(b, n.at, n.v)

\* The table is skipped, number by number, and the items read in a row.
DecodeHeaderList(b) ==
  LET n == ReadNumber(b, 0, 4) IN
  IF n.at < 0 \/ n.v < 0 \/ n.v > MaxHeaders \/ n.at + 8 * n.v > Len(b) THEN Threw
  ELSE ReadPairs(b, n.at + 8 * n.v, n.v)

\* Each item is read where the table says it is.
ReadIndexedList(b) ==
  LET n == ReadNumber(b, 0, 4)
      item(i) == LET at == ReadNumber(b, n.at + 8 * (i - 1), 8)
                 IN IF at.at < 0 \/ at.v > Len(b) THEN Threw ELSE ReadPair(b, at.v)
  IN IF n.at < 0 \/ n.v < 0 THEN Threw
     ELSE IF \E i \in 1 .. n.v : item(i).at < 0 THEN Threw
     ELSE Got(0, [i \in 1 .. n.v |-> item(i).v])

(***************************************************************************)
(* Steps                                                                   *)
(***************************************************************************)
Records == {"header", "tls", "config", "route", "status", "request", "event"}
CodecInit(r, s) == record = r /\ sample = s /\ headerList = <<>> /\ have = 0
\* One more byte of the record's payload; one more header.
PayloadGrows == /\ have < Len(WriteRecord(DartFields(record), Filled(record, sample)))
                /\ have' = have + 1 /\ UNCHANGED <<record, sample, headerList>>
HeadersGrow == /\ Len(headerList) < MaxList
               /\ \E h \in Headers : headerList' = Append(headerList, h)
               /\ UNCHANGED <<record, sample, have>>

(***************************************************************************)
(* Properties                                                              *)
(***************************************************************************)
OnWire(f, v) ==
  CASE f \in Strings -> Text(v)
    [] f = "params" -> [i \in 1 .. Len(v) |-> [name |-> Text(v[i].name), value |-> Text(v[i].value)]]
    [] OTHER -> v
Meant(r, s) == {<<f, OnWire(f, Filled(r, s)[f])>> : f \in ToSet(DartFields(r))}

\* A record one side wrote the other reads with every field in its place; of
\* a payload that stops short no field is made up, the reader refuses it
\* (encodeInto and fromReader of native.g.h and of nitro_server.g.dart).
RecordsCross ==
  LET wire == WriteRecord(DartFields(record), Filled(record, sample))
      back == WriteRecord(NativeFields(record), Filled(record, sample))
      d == ReadRecord(NativeFields(record), SubSeq(wire, 1, have))
  IN /\ have < Len(wire) => d = Threw
     /\ have = Len(wire) => /\ d.at = have /\ ToSet(d.v) = Meant(record, sample)
                            /\ ToSet(ReadRecord(DartFields(record), back).v) = Meant(record, sample)

\* The header list of an answer arrives as it was written, up to MaxHeaders of
\* them, and not at all when there are more; read by its table it is the same
\* list, and cut anywhere it is refused (encodeHeaderList, decodeHeaderList,
\* readIndexedList).
HeaderListCrosses ==
  LET wire == IndexedList(headerList)
      meant == [i \in 1 .. Len(headerList) |->
                  [name |-> Text(headerList[i].name), value |-> Text(headerList[i].value)]]
      d == DecodeHeaderList(wire)
  IN /\ IF Len(headerList) > MaxHeaders THEN d = Threw ELSE d = Got(Len(wire), meant)
     /\ ReadIndexedList(wire).v = meant
     /\ \A k \in 0 .. Len(wire) - 1 : DecodeHeaderList(SubSeq(wire, 1, k)) = Threw

\* The buffer FastCalls keeps is grown to what the list takes before it is
\* written, its outer length included, whatever the text (headerListBytes).
HeaderListFits == 4 + Len(IndexedList(headerList)) <= HeaderListBytes(headerList)

\* What one side of the bridge writes the other reads, within its buffer.
CodecAgrees == RecordsCross /\ HeaderListCrosses /\ HeaderListFits
=============================================================================
