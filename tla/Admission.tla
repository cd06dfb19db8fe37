----------------------------- MODULE Admission -----------------------------
(***************************************************************************)
(* Connection admission in UvReactor: the global cap (maxConnections), the  *)
(* per-address cap (maxConnectionsPerIp), the PROXY-protocol hand-over of   *)
(* a slot from the balancer to the client it names, the refusal of new      *)
(* connections while draining, and the release of both counts when a        *)
(* connection closes.                                                       *)
(*                                                                         *)
(* Accepts land on every loop thread.  liveConns_ is an atomic that a loop  *)
(* reads and later increments, with other loops running in between;         *)
(* ipCounts_ is read and updated under ipMutex_ in one go.  point[l] is *)
(* where loop l stands inside the callback it is running.                   *)
(***************************************************************************)
EXTENDS Integers, FiniteSets

CONSTANTS
    Conns,          \* the connections clients open during the run
    Loops,          \* the loop threads
    IPs,            \* the addresses peers have
    NoIp,           \* the empty string: no address known, or no slot held
    None,           \* no connection
    MaxConn,        \* cfg_.maxConnections, 0 = unlimited
    MaxPerIp,       \* cfg_.maxConnectionsPerIp, 0 = unlimited
    ProxyProtocol   \* cfg_.proxyProtocol

ASSUME ConnsAssumption == IsFiniteSet(Conns) /\ None \notin Conns
ASSUME LoopsAssumption == IsFiniteSet(Loops) /\ Loops # {}
ASSUME AddressAssumption == NoIp \notin IPs
ASSUME CapAssumption == MaxConn \in Nat /\ MaxPerIp \in Nat
ASSUME ProxyAssumption == ProxyProtocol \in BOOLEAN

VARIABLES
    conn,       \* where each connection is in its life
    owner,      \* the loop that accepted it
    clientIp,   \* Conn::clientIp, the address handlers are told
    peerIp,     \* Conn::peerIp, the address whose slot it holds, or NoIp
    counted,    \* the connections with Conn::counted set
    proxyDone,  \* the connections whose PROXY header has been consumed
    liveConns,  \* liveConns_
    ipCounts,   \* ipCounts_, 0 for an address with no entry
    draining,   \* draining_
    point,      \* where each loop thread is in the callback it runs
    serving     \* the connection that callback is about

vars == <<conn, owner, clientIp, peerIp, counted, proxyDone, liveConns,
          ipCounts, draining, point, serving>>

\* "doomed": uv_close has been called, onCloseConn has not run yet.
ConnStates == {"new", "accepting", "open", "doomed", "closing", "closed"}

\* The points of onConnection, and of onCloseConn, where another thread may run.
Points == {"idle", "readLive", "takeSlot", "count", "giveSlot"}

TypeOK ==
    /\ conn \in [Conns -> ConnStates]
    /\ owner \in [Conns -> Loops]
    /\ clientIp \in [Conns -> IPs \cup {NoIp}]
    /\ peerIp \in [Conns -> IPs \cup {NoIp}]
    /\ counted \in SUBSET Conns
    /\ proxyDone \in SUBSET Conns
    /\ liveConns \in Nat
    /\ ipCounts \in [IPs -> Nat]
    /\ draining \in BOOLEAN
    /\ point \in [Loops -> Points]
    /\ serving \in [Loops -> Conns \cup {None}]

Init ==
    /\ conn = [c \in Conns |-> "new"]
    /\ owner \in [Conns -> Loops]
    /\ clientIp = [c \in Conns |-> NoIp]
    /\ peerIp = [c \in Conns |-> NoIp]
    /\ counted = {}
    /\ proxyDone = {}
    /\ liveConns = 0
    /\ ipCounts = [ip \in IPs |-> 0]
    /\ draining = FALSE
    /\ point = [l \in Loops |-> "idle"]
    /\ serving = [l \in Loops |-> None]

\* The loop moves to point p of its callback, still serving c.
GoTo(l, p, c) ==
    /\ point' = [point EXCEPT ![l] = p]
    /\ serving' = [serving EXCEPT ![l] = c]

-----------------------------------------------------------------------------
(* onConnection, in the order the code runs it.                             *)

\* A slip the code could have made: draining_ not consulted at accept.
OnConnectionIgnoresDrain(l, c, ip) ==
    /\ point[l] = "idle"
    /\ conn[c] = "new"
    /\ owner[c] = l
    /\ clientIp' = [clientIp EXCEPT ![c] = ip]
    /\ conn' = [conn EXCEPT ![c] = "accepting"]
    /\ GoTo(l, "readLive", c)
    /\ UNCHANGED <<owner, peerIp, counted, proxyDone, liveConns, ipCounts, draining>>

\* A refused connection is closed: uv_close, at once or when its 503 lands.
Refuse(l, c) ==
    /\ conn' = [conn EXCEPT ![c] = "doomed"]
    /\ GoTo(l, "idle", None)

\* Accept: read the peer's address and draining_.  uv_accept may fail, which
\* closes the handle before anything is counted.
OnConnection(l, c, ip) ==
    /\ point[l] = "idle"
    /\ conn[c] = "new"
    /\ owner[c] = l
    /\ clientIp' = [clientIp EXCEPT ![c] = ip]
    /\ \/ Refuse(l, c)
       \/ /\ ~draining
          /\ conn' = [conn EXCEPT ![c] = "accepting"]
          /\ GoTo(l, "readLive", c)
    /\ UNCHANGED <<owner, peerIp, counted, proxyDone, liveConns, ipCounts, draining>>

\* The global cap is read here and acted on two steps later.
ReadLive(l) ==
    LET c == serving[l] IN
    /\ point[l] = "readLive"
    /\ IF MaxConn > 0 /\ liveConns >= MaxConn
       THEN Refuse(l, c)
       ELSE /\ GoTo(l, "takeSlot", c)
            /\ conn' = conn
    /\ UNCHANGED <<owner, clientIp, peerIp, counted, proxyDone, liveConns,
                   ipCounts, draining>>

\* The per-address cap is checked and taken under ipMutex_.
TakeSlot(l) ==
    LET c == serving[l]
        ip == clientIp[c]
        capped == MaxPerIp > 0 /\ ip # NoIp
    IN
    /\ point[l] = "takeSlot"
    /\ \/ /\ ~capped
          /\ GoTo(l, "count", c)
          /\ UNCHANGED <<conn, peerIp, ipCounts>>
       \/ /\ capped
          /\ ipCounts[ip] >= MaxPerIp
          /\ Refuse(l, c)
          /\ UNCHANGED <<peerIp, ipCounts>>
       \/ /\ capped
          /\ ipCounts[ip] < MaxPerIp
          /\ ipCounts' = [ipCounts EXCEPT ![ip] = @ + 1]
          /\ peerIp' = [peerIp EXCEPT ![c] = ip]
          /\ GoTo(l, "count", c)
          /\ conn' = conn
    /\ UNCHANGED <<owner, clientIp, counted, proxyDone, liveConns, draining>>

\* Count the connection and start reading; a TLS session that cannot be set
\* up closes it, counted, without it ever being open.
Count(l) ==
    LET c == serving[l] IN
    /\ point[l] = "count"
    /\ counted' = counted \cup {c}
    /\ liveConns' = liveConns + 1
    /\ \E next \in {"open", "doomed"} : conn' = [conn EXCEPT ![c] = next]
    /\ GoTo(l, "idle", None)
    /\ UNCHANGED <<owner, clientIp, peerIp, proxyDone, ipCounts, draining>>

-----------------------------------------------------------------------------
(* While the connection is open.                                            *)

\* Slip: the slot stays with the balancer.
MovesNever(c, ip) == FALSE

\* readCb consumes a complete PROXY header naming ip (NoIp for LOCAL and
\* UNKNOWN): the slot moves from the socket peer to the client, or the
\* connection is closed when that client is at its cap.
Moves(c, ip) == ip # NoIp /\ MaxPerIp > 0 /\ ip # peerIp[c]

\* Slip: the socket peer's slot is not given back on a hand-over.
ReleasedCountsKept(c) == ipCounts

ReleasedCounts(c) ==
    IF peerIp[c] = NoIp THEN ipCounts
    ELSE [ipCounts EXCEPT ![peerIp[c]] = @ - 1]

ProxyHeader(l, c, ip) ==
    /\ point[l] = "idle"
    /\ conn[c] = "open"
    /\ owner[c] = l
    /\ ProxyProtocol /\ c \notin proxyDone
    /\ proxyDone' = proxyDone \cup {c}
    /\ clientIp' = IF ip = NoIp THEN clientIp ELSE [clientIp EXCEPT ![c] = ip]
    /\ \/ /\ ~Moves(c, ip)
          /\ UNCHANGED <<conn, peerIp, ipCounts>>
       \/ /\ Moves(c, ip)
          /\ ReleasedCounts(c)[ip] >= MaxPerIp
          /\ ipCounts' = ReleasedCounts(c)
          /\ peerIp' = [peerIp EXCEPT ![c] = NoIp]
          /\ conn' = [conn EXCEPT ![c] = "doomed"]
       \/ /\ Moves(c, ip)
          /\ ReleasedCounts(c)[ip] < MaxPerIp
          /\ ipCounts' = [ReleasedCounts(c) EXCEPT ![ip] = @ + 1]
          /\ peerIp' = [peerIp EXCEPT ![c] = ip]
          /\ conn' = conn
    /\ UNCHANGED <<owner, counted, liveConns, draining, point, serving>>

\* Anything that closes an open connection: EOF, a write error, a sweep
\* timeout, a malformed PROXY header, the end of a non-keep-alive answer.
Close(l, c) ==
    /\ point[l] = "idle"
    /\ conn[c] = "open"
    /\ owner[c] = l
    /\ conn' = [conn EXCEPT ![c] = "doomed"]
    /\ UNCHANGED <<owner, clientIp, peerIp, counted, proxyDone, liveConns,
                   ipCounts, draining, point, serving>>

-----------------------------------------------------------------------------
(* onCloseConn -> releaseAdmission: the global count, then the slot.        *)

\* Slip: a connection that holds no slot skips the whole close callback.
OnCloseConnOnlyCounted(l, c) ==
    /\ c \in counted
    /\ point[l] = "idle"
    /\ conn[c] = "doomed"
    /\ owner[c] = l
    /\ liveConns' = liveConns - 1
    /\ counted' = counted \ {c}
    /\ conn' = [conn EXCEPT ![c] = "closing"]
    /\ GoTo(l, "giveSlot", c)
    /\ UNCHANGED <<owner, clientIp, peerIp, proxyDone, ipCounts, draining>>

OnCloseConn(l, c) ==
    /\ point[l] = "idle"
    /\ conn[c] = "doomed"
    /\ owner[c] = l
    /\ liveConns' = IF c \in counted THEN liveConns - 1 ELSE liveConns
    /\ counted' = counted \ {c}
    /\ conn' = [conn EXCEPT ![c] = "closing"]
    /\ GoTo(l, "giveSlot", c)
    /\ UNCHANGED <<owner, clientIp, peerIp, proxyDone, ipCounts, draining>>

GiveSlot(l) ==
    LET c == serving[l] IN
    /\ point[l] = "giveSlot"
    /\ ipCounts' = ReleasedCounts(c)
    /\ peerIp' = [peerIp EXCEPT ![c] = NoIp]
    /\ conn' = [conn EXCEPT ![c] = "closed"]
    /\ GoTo(l, "idle", None)
    /\ UNCHANGED <<owner, clientIp, counted, proxyDone, liveConns, draining>>

\* beginDrain, from the Dart side, at any time.
BeginDrain ==
    /\ ~draining
    /\ draining' = TRUE
    /\ UNCHANGED <<conn, owner, clientIp, peerIp, counted, proxyDone, liveConns,
                   ipCounts, point, serving>>

Finish(l) ==
    \/ ReadLive(l)
    \/ TakeSlot(l)
    \/ Count(l)
    \/ GiveSlot(l)
    \/ \E c \in Conns : OnCloseConn(l, c)

Next ==
    \/ \E l \in Loops : Finish(l)
    \/ \E l \in Loops, c \in Conns, ip \in IPs \cup {NoIp} :
          OnConnection(l, c, ip) \/ ProxyHeader(l, c, ip)
    \/ \E l \in Loops, c \in Conns : Close(l, c)
    \/ BeginDrain

\* A loop thread never stops half-way through a callback, and uv_run calls
\* the close callback of every handle that was closed.
Fairness == \A l \in Loops : WF_vars(Finish(l))

Spec == Init /\ [][Next]_vars /\ Fairness

-----------------------------------------------------------------------------
(* What admission promises.                                                 *)

Holders(ip) == {c \in Conns : peerIp[c] = ip}

\* liveConns_ is exactly the connections counted and not yet released, and
\* a connection is counted from the moment it is open until its close
\* callback: every refuse path of onConnection is symmetric with
\* releaseAdmission, whatever the loops interleave.
LiveCountExact ==
    /\ liveConns = Cardinality(counted)
    /\ \A c \in Conns :
          /\ conn[c] = "open" => c \in counted
          /\ conn[c] \in {"new", "accepting", "closing", "closed"} => c \notin counted

\* ipCounts_ is exactly the slots connections hold (a hand-over by the PROXY
\* header included), and a closed connection holds none.
SlotsExact ==
    /\ \A ip \in IPs : ipCounts[ip] = Cardinality(Holders(ip))
    /\ \A c \in Conns : conn[c] \in {"new", "closed"} => peerIp[c] = NoIp

\* With a per-address cap, the open connections of one client - the address
\* handlers are told, after the PROXY header if there is one - never exceed it.
PerClientCap ==
    MaxPerIp > 0 =>
       \A ip \in IPs :
          Cardinality({c \in Conns : conn[c] = "open" /\ clientIp[c] = ip}) <= MaxPerIp

\* The global cap is checked before it is counted, so every other loop may
\* have one connection past the check: the true bound on liveConns_.
LiveBound ==
    MaxConn > 0 => liveConns <= MaxConn + Cardinality(Loops) - 1

\* Once beginDrain has returned, no connection gets in that was not already
\* past the check of draining_ (onConnection "refuses while draining").
DrainAdmitsNobody ==
    [][draining => \A c \in Conns :
          conn'[c] \in {"accepting", "open"} => conn[c] \in {"accepting", "open"}]_vars

\* Every connection that is closed - refused ones, and ones whose TLS setup
\* failed, included - gives back what it took.
CapacityReturns ==
    \A c \in Conns :
       conn[c] = "doomed" ~> (conn[c] = "closed" /\ c \notin counted /\ peerIp[c] = NoIp)

\* What the engine counts is what is there: connections and slots, with their
\* types (onConnection, releaseAdmission).
CountsMatch == TypeOK /\ LiveCountExact /\ SlotsExact

\* The caps of onConnection hold: the one per client strictly, the global one
\* up to the connections other loops have past its check.
CapsHold == PerClientCap /\ LiveBound
=============================================================================
