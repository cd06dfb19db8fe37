---------------------------- MODULE HeadParsing ----------------------------
(***************************************************************************)
(* The heads of HTTP/1.x messages: the request line and field lines of     *)
(* parseHead, the framing and keep-alive decisions uvFraming and           *)
(* uvClientWantsKeepAlive take from the parsed fields, and the response    *)
(* heads uvBuildHead and uvBuildStreamHead put around a handler's fields.  *)
(*                                                                         *)
(* A line is a sequence of characters: "a" stands for any visible ASCII    *)
(* character without a meaning of its own, "hi" for a well-formed and      *)
(* "bad" for an ill-formed character beyond ASCII, "ctl" for a control     *)
(* character, "http://" and "https://" for themselves.  A field is a       *)
(* lower-case name and its value cut at the commas and trimmed.            *)
(***************************************************************************)
EXTENDS Integers, Sequences, FiniteSets, SequencesExt

CONSTANTS RequestLines,  \* request lines
          LineChars, MaxLine, \* the characters and greatest length of field lines
          Fields,        \* [name, value] of requests, and of handlers' answers
          MaxFields, Statuses

VARIABLES
  requestLine,  \* a request line
  fieldLine,    \* a field line, character by character
  version,      \* "1.0" or "1.1"
  fields        \* the fields of a head, in order

headVars == <<requestLine, fieldLine, version, fields>>

Refused == [ok |-> FALSE, badVersion |-> FALSE]
Blank == {" ", "tab"}
First(s, c) == LET at == {i \in DOMAIN s : s[i] \in c}
               IN IF at = {} THEN 0 ELSE CHOOSE i \in at : \A j \in at : i <= j
After(s, i) == SubSeq(s, i + 1, Len(s))

(***************************************************************************)
(* parseHead                                                               *)
(***************************************************************************)
\* What a target is reduced to; <<>> is a refusal.
Target(t) ==
  LET slash == First(Tail(t), {"/"}) IN
  IF t[1] = "https://" \/ (t[1] = "http://" /\ Len(t) > 1)
    THEN IF slash = 0 THEN <<"/">> ELSE After(Tail(t), slash - 1)
  ELSE IF t[1] = "/" \/ t = <<"*">> THEN t ELSE <<>>

ParseRequestLine(l) ==
  LET sp1 == First(l, {" "})
      sp2 == sp1 + First(After(l, sp1), {" "})
      target == Target(SubSeq(l, sp1 + 1, sp2 - 1))
  IN IF \/ \E i \in DOMAIN l : l[i] \in {"tab", "ctl", "hi", "bad"}
        \/ sp1 <= 1 \/ sp2 <= sp1 + 1
       THEN Refused
     ELSE IF After(l, sp2) \notin {<<"1.0">>, <<"1.1">>} THEN [Refused EXCEPT !.badVersion = TRUE]
     ELSE IF target = <<>> THEN Refused
     ELSE [ok |-> TRUE, badVersion |-> FALSE, method |-> SubSeq(l, 1, sp1 - 1), target |-> target,
           version |-> l[sp2 + 1]]

\* trimSv
Trim(s) ==
  LET kept == {i \in DOMAIN s : s[i] \notin Blank}
  IN IF kept = {} THEN <<>>
     ELSE SubSeq(s, CHOOSE i \in kept : \A j \in kept : i <= j, CHOOSE i \in kept : \A j \in kept : i >= j)

ParseField(l) ==
  LET colon == First(l, {":"})
      name == SubSeq(l, 1, colon - 1)
      value == Trim(After(l, colon))
  IN IF \/ \E i \in DOMAIN l : l[i] = "ctl"
        \/ l[1] \in Blank
        \/ colon <= 1 \/ l[colon - 1] \in Blank
        \/ \E i \in DOMAIN value : value[i] = "bad"
        \/ \E i \in DOMAIN name : name[i] \in {"hi", "bad"}
       THEN Refused
       ELSE [ok |-> TRUE, name |-> name, value |-> value]

(***************************************************************************)
(* uvFraming, uvClientWantsKeepAlive                                       *)
(***************************************************************************)
Named(fs, name) == SelectSeq(fs, LAMBDA f : f.name = name)

\* The codings of a Transfer-Encoding in order: the first thing wrong decides.
Coding(v) ==
  LET codings == SelectSeq(v, LAMBDA t : t # "")
      wrong == {i \in DOMAIN codings : i > 1 \/ codings[i] # "chunked"}
  IN IF codings = <<>> THEN 400
     ELSE IF wrong = {} THEN 0
     ELSE LET i == CHOOSE k \in wrong : \A j \in wrong : k <= j
          IN IF codings[i] = "chunked" THEN 400 ELSE 501

Digits == {"5", "7"}

\* Content-Length lines that agree are let through.
SlipFraming(v, fs) ==
  LET cl == Named(fs, "content-length")
      te == Named(fs, "transfer-encoding")
      coding == IF te = <<>> THEN 0 ELSE Coding(te[1].value)
      host == Named(fs, "host")
      status == IF Cardinality({cl[i].value : i \in DOMAIN cl}) > 1 \/ Len(te) > 1 \/ (cl # <<>> /\ te # <<>>) THEN 400
                ELSE IF te # <<>> /\ v = "1.0" THEN 400
                ELSE IF coding # 0 THEN coding
                ELSE IF cl # <<>> /\ (Len(cl[1].value) # 1 \/ cl[1].value[1] \notin Digits) THEN 400
                ELSE IF v = "1.1" /\ Len(host) # 1 THEN 400 ELSE 0
  IN [status |-> status, chunked |-> status = 0 /\ te # <<>>]

Framing(v, fs) ==
  LET cl == Named(fs, "content-length")
      te == Named(fs, "transfer-encoding")
      coding == IF te = <<>> THEN 0 ELSE Coding(te[1].value)
      host == Named(fs, "host")
      status == IF Len(cl) > 1 \/ Len(te) > 1 \/ (cl # <<>> /\ te # <<>>) THEN 400
                ELSE IF te # <<>> /\ v = "1.0" THEN 400
                ELSE IF coding # 0 THEN coding
                ELSE IF cl # <<>> /\ (Len(cl[1].value) # 1 \/ cl[1].value[1] \notin Digits) THEN 400
                ELSE IF v = "1.1" /\ Len(host) # 1 THEN 400 ELSE 0
  IN [status |-> status, chunked |-> status = 0 /\ te # <<>>]

KeepAlive(v, fs) ==
  LET conn == Named(fs, "connection")
      tokens == IF conn = <<>> THEN {} ELSE ToSet(conn[1].value)
  IN "close" \notin tokens /\ ("keep-alive" \in tokens \/ v # "1.0")

(***************************************************************************)
(* uvBuildHead, uvBuildStreamHead: the fields of a response                *)
(***************************************************************************)
\* "proxy-x" stands for every name that begins with "proxy-", "no token" and
\* "ctl" for names and values that may not be written.
EngineOwned == {"content-length", "connection", "transfer-encoding", "keep-alive", "upgrade",
                "trailer", "te", "proxy-x"}
Unwritable(f) == f.name = "no token" \/ "ctl" \in ToSet(f.value)

Passed(fs) == SelectSeq(fs, LAMBDA f : f.name \notin EngineOwned /\ ~Unwritable(f))
Field(name, token) == [name |-> name, value |-> <<token>>]
\* secs < 0: the Keep-Alive field is turned off.
Persistence(keepAlive, secs) ==
  IF ~keepAlive THEN <<Field("connection", "close")>>
  ELSE <<Field("connection", "keep-alive")>> \o (IF secs < 0 THEN <<>> ELSE <<Field("keep-alive", "timeout")>>)
Bodyless(status) == status \in {204, 304} \cup 100 .. 199

BuildHead(status, fs, length, keepAlive, secs) ==
  <<Field("date", "now")>> \o Passed(fs)
  \o (IF Bodyless(status) THEN <<>> ELSE <<Field("content-length", length)>>) \o Persistence(keepAlive, secs)
BuildStreamHead(status, fs, keepAlive, secs) ==
  <<Field("date", "now")>> \o Passed(fs)
  \o <<Field("transfer-encoding", "chunked")>> \o Persistence(keepAlive, secs)
ErrorResponse(status, length, extra) ==
  BuildHead(status, Append(extra, Field("content-type", "text/plain")), length, FALSE, 0)

(***************************************************************************)
(* One line, one more character, one more field                            *)
(***************************************************************************)
HeadInit(line) == requestLine = line /\ fieldLine = <<>> /\ version \in {"1.0", "1.1"} /\ fields = <<>>
LineGrows == /\ Len(fieldLine) < MaxLine
             /\ \E c \in LineChars : fieldLine' = Append(fieldLine, c)
             /\ UNCHANGED <<requestLine, version, fields>>
FieldsGrow == /\ Len(fields) < MaxFields
              /\ \E f \in Fields : fields' = Append(fields, f)
              /\ UNCHANGED <<requestLine, fieldLine, version>>

(***************************************************************************)
(* Properties                                                              *)
(***************************************************************************)
\* A request line is taken exactly when it is a method, a target and a known
\* version with one space between them, in visible ASCII; whatever the form of
\* its target, what the router is given is its path: rooted, with nothing of
\* the authority, or the asterisk (parseHead).
RequestLineExact ==
  LET p == ParseRequestLine(requestLine)
      words == {w \in (1 .. Len(requestLine)) \X (1 .. Len(requestLine)) :
                  /\ 1 < w[1] /\ w[1] + 1 < w[2] /\ w[2] = Len(requestLine) - 1
                  /\ \A i \in DOMAIN requestLine : requestLine[i] = " " <=> i \in {w[1], w[2]}}
      clean == \A i \in DOMAIN requestLine : requestLine[i] \notin {"tab", "ctl", "hi", "bad"}
      target(w) == SubSeq(requestLine, w[1] + 1, w[2] - 1)
      absolute(w) == target(w)[1] \in {"http://", "https://"} /\ target(w) # <<"http://">>
  IN /\ p.ok <=> /\ clean /\ Last(requestLine) \in {"1.0", "1.1"}
                 /\ \E w \in words : target(w)[1] = "/" \/ target(w) = <<"*">> \/ absolute(w)
     /\ p.ok => \A w \in words :
          IF ~absolute(w) THEN p.target = target(w)
          ELSE \/ IsSuffix(p.target, target(w)) /\ p.target[1] = "/"
                  /\ "/" \notin ToSet(SubSeq(target(w), 1, Len(target(w)) - Len(p.target)))
               \/ p.target = <<"/">> /\ "/" \notin ToSet(target(w))

\* A field line is taken exactly when it is a name, a colon and a value in the
\* grammar of RFC 9112, the name without blanks at either end, and the value
\* is the line's without the blanks around it (parseHead).
FieldLineExact ==
  LET p == ParseField(fieldLine)
      n == Len(fieldLine)
      name(k) == SubSeq(fieldLine, 1, k - 1)
      readings == {k \in 2 .. n : /\ fieldLine[k] = ":" /\ ":" \notin ToSet(name(k))
                                  /\ ToSet(name(k)) \cap {"hi", "bad"} = {}
                                  /\ fieldLine[1] \notin Blank /\ fieldLine[k - 1] \notin Blank}
      sound == ToSet(fieldLine) \cap {"ctl", "bad"} = {}
  IN fieldLine # <<>> =>
     /\ p.ok <=> sound /\ readings # {}
     /\ p.ok => \A k \in readings : \E i, j \in k .. n :
          /\ p.name = name(k) /\ p.value = SubSeq(fieldLine, i + 1, j)
          /\ \A m \in (k + 1 .. i) \cup (j + 1 .. n) : fieldLine[m] \in Blank
          /\ p.value # <<>> => p.value[1] \notin Blank /\ Last(p.value) \notin Blank

\* RFC 9112: one way to tell where the message ends, and one host.
Count(name) == Cardinality({i \in DOMAIN fields : fields[i].name = name})
ValuesOf(name) == {fields[i].value : i \in {i \in DOMAIN fields : fields[i].name = name}}
OneReading ==
  /\ Count("content-length") + Count("transfer-encoding") <= 1
  /\ \A v \in ValuesOf("content-length") : v \in {<<d>> : d \in Digits}
  /\ \A v \in ValuesOf("transfer-encoding") : SelectSeq(v, LAMBDA t : t # "") = <<"chunked">>
  /\ Count("transfer-encoding") = 1 => version = "1.1"
  /\ version = "1.1" => Count("host") = 1

\* In whatever order and number the framing fields come, a head passes exactly
\* when it has one reading, and then it is chunked exactly when it says so;
\* 501 is said only of a coding other than chunked (uvFraming).
FramingExact ==
  LET f == Framing(version, fields) IN
  /\ f.status = 0 <=> OneReading
  /\ f.chunked <=> f.status = 0 /\ Count("transfer-encoding") = 1
  /\ f.status = 501 => \E v \in ValuesOf("transfer-encoding") : ~(ToSet(v) \subseteq {"chunked", ""})

\* A connection persists exactly as its Connection field, wherever among the
\* fields and its tokens in whatever order, and its version say; when the
\* field is repeated only the first is read (uvClientWantsKeepAlive).
KeepAliveExact ==
  Count("connection") <= 1 =>
    LET said(t) == \E v \in ValuesOf("connection") : t \in ToSet(v)
    IN KeepAlive(version, fields) <=> ~said("close") /\ (version = "1.1" \/ said("keep-alive"))

\* The same for a field that is repeated.
CloseHeard == (\E v \in ValuesOf("connection") : "close" \in ToSet(v)) => ~KeepAlive(version, fields)

\* Whatever fields a handler adds, a response says in one way where it ends
\* and in one way whether the connection persists, and a streamed head passes
\* on the fields of the handler's that a whole one does (uvBuildHead,
\* uvBuildStreamHead, uvErrorResponse).
ResponseFramed ==
  LET n(h, name) == Len(Named(h, name))
      own == {"content-length", "transfer-encoding", "connection", "keep-alive", "date"}
      never == {"te", "upgrade", "trailer", "proxy-x", "no token"}
      sound(h, keepAlive) ==
        /\ Named(h, "connection") = <<Field("connection", IF keepAlive THEN "keep-alive" ELSE "close")>>
        /\ \A i \in DOMAIN h : h[i].name \notin never /\ "ctl" \notin ToSet(h[i].value)
  IN \A status \in Statuses :
       /\ sound(ErrorResponse(status, "9", fields), FALSE)
       /\ \A keepAlive \in BOOLEAN, secs \in {-1, 5} :
            LET h == BuildHead(status, fields, "0", keepAlive, secs)
                s == BuildStreamHead(status, fields, keepAlive, secs)
            IN /\ sound(h, keepAlive) /\ sound(s, keepAlive)
               /\ n(h, "content-length") = (IF Bodyless(status) THEN 0 ELSE 1) /\ n(h, "transfer-encoding") = 0
               /\ n(s, "content-length") = 0 /\ n(s, "transfer-encoding") = 1
               /\ n(h, "keep-alive") = IF keepAlive /\ secs >= 0 THEN 1 ELSE 0
               /\ SelectSeq(h, LAMBDA f : f.name \notin own) = SelectSeq(s, LAMBDA f : f.name \notin own)

\* Request heads are read as RFC 9112 reads them, and response heads frame
\* their answers (parseHead, uvFraming, uvClientWantsKeepAlive, uvBuildHead).
HeadsExact ==
  RequestLineExact /\ FieldLineExact /\ FramingExact /\ KeepAliveExact /\ ResponseFramed
=============================================================================
