------------------------------- MODULE MCWire -------------------------------
(***************************************************************************)
(* The sequential parts side by side: the router and the codecs.  A        *)
(* behaviour is one scenario of one of them; the variables of the others   *)
(* keep a first value.                                                     *)
(***************************************************************************)
EXTENDS Router, ChunkedBody, WsFrames, HeadParsing, ConnPreamble, RecordCodec, JsonWriter
CONSTANTS l1
VARIABLE scenario

\* Router
R(m, pieces) == [method |-> m, pattern |-> [rooted |-> TRUE, pieces |-> pieces]]
TheRoutes == {R("GET", <<"">>), R("GET", <<"a">>), R("ALL", <<"a">>), R("HEAD", <<"a", "*">>), R("GET", <<"a", "", "b">>),
              R("ALL", <<"a", "b">>), R("GET", <<":x">>), R("PURGE", <<":x">>), R("GET", <<":y", "b">>), R("POST", <<":x", "b">>),
              R("GET", <<"a", ":x">>), R("ALL", <<"a", ":y">>), R("GET", <<"a", ":x", "c">>),
              R("ALL", <<"*">>), R("GET", <<"a", "*">>), R("GET", <<":x", "b", "*">>), R("PURGE", <<":x", "*">>),
              R("GET", <<"a", ":">>), R("GET", <<"*", "b">>), R("GET", <<"a*">>),
              [method |-> "GET", pattern |-> [rooted |-> FALSE, pieces |-> <<"a">>]]}
TheRequests == {<<"GET", <<"a", "b">>>>}
ThePaths == {<<"">>, <<"a">>, <<"c">>, <<"a", "b">>, <<"", "c", "b", "">>, <<"a", "b", "c">>}
TheParams == {":x", ":y"}
TheStandard == {"GET", "HEAD", "POST"}
TheCustoms == {"PURGE"}
TheLoops == {l1}

\* ChunkedBody
MCBodies == {<<>>, << <<"e">> >>, << <<"CR", "0">> >>, << <<"LF">>, <<"CR">> >>, << <<"e", "e">>, <<"e">> >>}
MCMessages ==
  [chunks : MCBodies, ext : {<<>>, <<";", "x">>}, trailers : {0, 2, 3}, rest : {<<>>, <<"1", "CR">>},
   defect : {"none", "empty size", "junk size", "long size", "control", "no crlf"}]

\* WsFrames
MCFrames == [fin : BOOLEAN, rsv : {0, 1, 2, 4}, op : {0, 1, 2, 3, 8, 9, 10, 11},
             size : {0, 125, 126, 65535, 65536, TopBit}, masked : BOOLEAN]
MCTextBytes == {65, 143, 144, 160, 193, 194, 224, 237, 240, 244, 245}

\* HeadParsing
MCRequestLines ==
  {m \o a \o t \o b \o v :
     m \in {<<>>, <<"a">>, <<"hi">>}, a \in {<<>>, <<" ">>, <<"tab">>}, b \in {<<" ">>, <<" ", " ">>},
     t \in {<<>>, <<"*">>, <<"/">>, <<"a">>, <<"/", "a", "/">>, <<"*", "a">>, <<"http://">>, <<"https://">>,
            <<"http://", "a">>, <<"https://", "a", "/", "a", "/">>, <<"/", " ", "a">>, <<"/", "ctl">>},
     v \in {<<>>, <<"1.0">>, <<"1.1">>, <<"2.0">>, <<"1.1", "a">>}}
MCLineChars == {"a", ":", " ", "ctl", "hi", "bad"}
F(name, value) == [name |-> name, value |-> value]
MCFields ==
  {F("host", <<"a">>), F("content-length", <<"5">>), F("content-length", <<"7">>), F("content-length", <<"+5">>),
   F("transfer-encoding", <<"chunked">>), F("transfer-encoding", <<"", "chunked">>), F("transfer-encoding", <<"chunked", "chunked">>),
   F("transfer-encoding", <<"chunked", "gzip">>), F("transfer-encoding", <<"">>), F("connection", <<"close">>),
   F("connection", <<"keep-alive">>), F("connection", <<"close", "keep-alive">>), F("connection", <<"enclose", "upgrade">>),
   F("upgrade", <<"websocket">>), F("proxy-x", <<"a">>), F("x", <<"a">>), F("x", <<"ctl">>), F("no token", <<"a">>)}

\* ConnPreamble
V1(words) == [v |-> 1, words |-> words]
V2(verCmd, af, bytes, src) == [v |-> 2, verCmd |-> verCmd, af |-> af, len |-> bytes, src |-> src]
MCProxies ==
  {[v |-> 0], V1(<<201>>), V1(<<201, 230, 230>>), V1(<<202, 211, 212, 230, 230>>), V1(<<203, 221, 222, 230, 230>>),
   V1(<<202, 221, 212, 230, 230>>), V1(<<202, 211, 212, 230>>), V1(<<202, 211, 212, 230, 207>>), V1(<<207>>),
   V1(<<202, 211, 212, 230, 230, 230>>),
   V2(32, 0, 0, 0), V2(32, 1, 3, 0), V2(33, 1, 12, 211), V2(33, 1, 14, 211), V2(33, 1, 11, 211), V2(33, 2, 36, 221),
   V2(33, 2, 12, 221), V2(33, 0, 2, 0), V2(33, 3, 12, 0), V2(34, 1, 12, 211), V2(17, 1, 12, 211)}
MCApps == {<<71, 13, 10, 13, 10>>, <<80, 85>>, <<13, 10, 71>>, SubSeq(Preface, 1, 11) \o <<49, 46, 49, 13, 10, 13, 10>>,
           Preface, Preface \o <<0, 4>>}
MCClients == {c \in [proxy : MCProxies, tls : BOOLEAN, alpn : {"h2", "http/1.1"}, app : MCApps] :
                c.tls \/ c.alpn = "http/1.1"}

\* RecordCodec
MCHeaders == [name : {<<"a">>, <<"b", "b">>}, value : {<<>>, <<"eur">>, <<"a", "e'">>}]

\* JsonWriter
MCDoubles == [neg : BOOLEAN, digits : {<<"1">>, <<"1", "0", "5">>}, e : {-8, -7, -6, -1, 0, 1, 2, 20, 21}]
             \cup {[neg |-> n, digits |-> <<>>, e |-> 0] : n \in BOOLEAN}
MCStrings == {<<>>, <<"a">>, <<"ctl", "ctl", "ctl">>, <<"quote", "a", "escape", "newline">>}
MCRows(n, col) == [type |-> "rows", n |-> n, segs |-> << <<"{">>, <<"}">> >>, cols |-> <<col>>]
MCInner == {[type |-> "raw", raw |-> <<"n", "u", "l", "l">>], MCRows(0, <<>>), MCRows(2, <<1, -2>>),
            [type |-> "string", string |-> <<"ctl", "ctl", "ctl">>]}
MCValues == {[type |-> "int", int |-> n] : n \in {0, 7, 10, 127, -1, -128}}
            \cup {[type |-> "double", double |-> d] : d \in MCDoubles}
            \cup {[type |-> "string", string |-> s] : s \in MCStrings} \cup MCInner
MCKeys == {<<"a">>, <<"ctl">>}

\* The first values of what a scenario leaves alone.
AMessage == CHOOSE m \in Messages : m.chunks = <<>> /\ m.defect = "none"
AClient == CHOOSE c \in Clients : c.proxy.v = 0 /\ ~c.tls /\ c.app = <<80, 85>>

Scenarios == {"router", "chunks", "frame", "text", "request line", "field line", "fields",
              "preamble", "record", "headers", "json"}
WireInit ==
  /\ scenario \in Scenarios
  /\ RouterInit /\ JsonInit
  /\ message \in (IF scenario = "chunks" THEN Messages ELSE {AMessage}) /\ ChunkInit
  /\ client \in (IF scenario = "preamble" THEN Clients ELSE {AClient}) /\ PreambleInit
  /\ scenario # "preamble" => ~http2
  /\ IF scenario = "frame" THEN FrameInit ELSE TextInit
  /\ \E line \in (IF scenario = "request line" THEN RequestLines ELSE {<<"1.1">>}) : HeadInit(line)
  /\ scenario \notin {"fields", "request line"} => version = "1.1"
  /\ IF scenario = "record" THEN \E r \in Records, s \in Samples : CodecInit(r, s) ELSE CodecInit("header", 1)

In(s) == scenario = s /\ UNCHANGED scenario
WireNext ==
  \/ In("router") /\ RouterNext /\ UNCHANGED <<chunkVars, frameVars, headVars, preambleVars, codecVars, jsonVars>>
  \/ In("chunks") /\ ChunkNext /\ UNCHANGED <<routerVars, frameVars, headVars, preambleVars, codecVars, jsonVars>>
  \/ In("frame") /\ FrameGrows /\ UNCHANGED <<routerVars, chunkVars, headVars, preambleVars, codecVars, jsonVars>>
  \/ In("text") /\ TextGrows /\ UNCHANGED <<routerVars, chunkVars, headVars, preambleVars, codecVars, jsonVars>>
  \/ In("field line") /\ LineGrows /\ UNCHANGED <<routerVars, chunkVars, frameVars, preambleVars, codecVars, jsonVars>>
  \/ In("fields") /\ FieldsGrow /\ UNCHANGED <<routerVars, chunkVars, frameVars, preambleVars, codecVars, jsonVars>>
  \/ In("preamble") /\ PreambleNext /\ UNCHANGED <<routerVars, chunkVars, frameVars, headVars, codecVars, jsonVars>>
  \/ In("record") /\ PayloadGrows /\ UNCHANGED <<routerVars, chunkVars, frameVars, headVars, preambleVars, jsonVars>>
  \/ In("headers") /\ HeadersGrow /\ UNCHANGED <<routerVars, chunkVars, frameVars, headVars, preambleVars, jsonVars>>
  \/ In("json") /\ JsonNext /\ UNCHANGED <<routerVars, chunkVars, frameVars, headVars, preambleVars, codecVars>>
wireVars == <<scenario, routerVars, chunkVars, frameVars, headVars, preambleVars, codecVars, jsonVars>>
WireSpec == WireInit /\ [][WireNext]_wireVars
=============================================================================
