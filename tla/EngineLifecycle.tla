-------------------------- MODULE EngineLifecycle --------------------------
(***************************************************************************)
(* Engines from their creation to their end: EngineRegistry (resolve,      *)
(* resetAll), UvReactor::start with its port reservation and failure       *)
(* paths, stop with the loops it joins, beginDrain, the TLS context that   *)
(* start builds, reloadTls swaps and every accepted connection takes a     *)
(* reference on, and respond() from an isolate while another stops.        *)
(*                                                                         *)
(* Isolates call in through their bridge object (HybridNitroServerImpl),   *)
(* which keeps its engine alive; the event loops of an engine are one, as  *)
(* start and stop treat them alike.  A step ends where the code ends an    *)
(* atomic access, releases a mutex, or waits.                              *)
(***************************************************************************)
EXTENDS Naturals, FiniteSets

CONSTANTS Isolates,  \* isolates that call the bridge
          Engines,   \* UvReactor objects
          Key,       \* Key[e]: the instance key e is resolved by
          Ports,     \* TCP ports
          Port,      \* Port[e]: ServerConfig.port, 0 for any
          Tls,       \* engines configured with TLS
          Conns,     \* connections
          Ctxs,      \* SSL_CTX objects
          Workloads  \* what the isolates do, the engines and the clients there are

None == "none"
ASSUME LifecycleAssumption ==
  /\ 0 \notin Ports /\ Port \in [Engines -> Ports \cup {0}]
  /\ Tls \subseteq Engines /\ None \notin Engines \cup Ctxs \cup Isolates
  /\ IsFiniteSet(Isolates) /\ IsFiniteSet(Engines) /\ IsFiniteSet(Conns)

VARIABLES
  work,       \* the workload, fixed: [may, engines, conns]
  mapped,     \* EngineRegistry::instances()
  lock,       \* the isolate in resetAll, which holds the registry's mutex
  toStop,     \* engines resetAll has still to stop
  holds,      \* holds[i]: the engine of the isolate's bridge object
  pc, on,     \* where an isolate's call is, and the engine it is about
  fresh,      \* the context a reloadTls has built and not swapped in
  answering,  \* the connection a respond() has looked up
  running, draining, cfgPort, reserved, sslCtx,   \* the members of an engine
  loops,      \* loops_: "none", "up", "stopping", "down" (to be joined)
  boundPorts, \* boundPorts(), process wide
  refs,       \* references on a context
  conn,       \* "new", "accepting", "open", "closed"
  at, ctx,    \* the engine and the context of a connection
  located,    \* connections with a request in reqLoc_
  orphaned,   \* history: contexts a later start stored over
  swapped,    \* history: connections whose context was swapped out under the accept
  outlived,   \* history: respond() calls that outlived a stop()
  misused     \* undefined behaviour met: a freed "context" or "loop" used, or
              \* a "race" of start() and stop() on loops_ and reservedPort_

callVars == <<holds, pc, on, fresh, answering>>
engineVars == <<running, draining, cfgPort, reserved, sslCtx, loops, boundPorts>>
connVars == <<conn, at, ctx, located>>
historyVars == <<orphaned, swapped, outlived, misused>>
registryVars == <<work, mapped, lock, toStop>>
vars == <<registryVars, callVars, engineVars, refs, connVars, historyVars>>

Steps == {"idle", "tls", "reserve", "bind", "loops", "claim", "join", "release",
          "build", "swap", "looking", "pushing"}

TypeOK ==
  /\ work \in Workloads
  /\ mapped \subseteq Engines /\ lock \in Isolates \cup {None} /\ toStop \subseteq Engines
  /\ holds \in [Isolates -> Engines \cup {None}]
  /\ pc \in [Isolates -> Steps] /\ on \in [Isolates -> Engines \cup {None}]
  /\ fresh \in [Isolates -> Ctxs \cup {None}] /\ answering \in [Isolates -> Conns \cup {None}]
  /\ running \in [Engines -> BOOLEAN] /\ draining \in [Engines -> BOOLEAN]
  /\ cfgPort \in [Engines -> Ports \cup {0}] /\ reserved \in [Engines -> Ports \cup {0}]
  /\ sslCtx \in [Engines -> Ctxs \cup {None}]
  /\ loops \in [Engines -> {"none", "up", "stopping", "down"}]
  /\ boundPorts \subseteq Ports
  /\ refs \in [Ctxs -> Nat]
  /\ conn \in [Conns -> {"new", "accepting", "open", "closed"}]
  /\ at \in [Conns -> Engines \cup {None}] /\ ctx \in [Conns -> Ctxs \cup {None}]
  /\ located \subseteq Conns
  /\ misused \subseteq {"context", "loop", "race"}

Init ==
  /\ work \in Workloads
  /\ mapped = {} /\ lock = None /\ toStop = {}
  /\ holds = [i \in Isolates |-> None]
  /\ pc = [i \in Isolates |-> "idle"] /\ on = [i \in Isolates |-> None]
  /\ fresh = [i \in Isolates |-> None] /\ answering = [i \in Isolates |-> None]
  /\ running = [e \in Engines |-> FALSE] /\ draining = [e \in Engines |-> FALSE]
  /\ cfgPort = Port /\ reserved = [e \in Engines |-> 0]
  /\ sslCtx = [e \in Engines |-> None] /\ loops = [e \in Engines |-> "none"]
  /\ boundPorts = {}
  /\ refs = [x \in Ctxs |-> 0]
  /\ conn = [k \in Conns |-> "new"]
  /\ at = [k \in Conns |-> None] /\ ctx = [k \in Conns |-> None] /\ located = {}
  /\ orphaned = {} /\ swapped = {} /\ outlived = {} /\ misused = {}

\* Nothing is said of what follows undefined behaviour: every step asks for this.
Defined == misused = {}
Goes(i, step) == Defined /\ pc' = [pc EXCEPT ![i] = step]
Drop(x) == refs' = [refs EXCEPT ![x] = @ - 1]
\* SSL_CTX_new: which of the unused ones does not matter.
Unused == {x \in Ctxs : /\ refs[x] = 0 /\ \A e \in Engines : sslCtx[e] # x
                        /\ \A k \in Conns : ctx[k] # x
                        /\ x \notin orphaned}
NewCtx == IF Unused = {} THEN {} ELSE {CHOOSE x \in Unused : TRUE}

(***************************************************************************)
(* The registry.                                                           *)
(***************************************************************************)
\* resolve(): the engine mapped to the key, or a new one.  A key has one isolate
\* that serves it; the helpers it spawns attach to it.
Resolve(i, e) ==
  /\ Defined /\ pc[i] = "idle" /\ holds[i] = None /\ lock = None /\ e \in work.engines
  /\ \A j \in Isolates : holds[j] = e => ~("serve" \in work.may[i] /\ "serve" \in work.may[j])
  /\ \/ e \in mapped
     \/ /\ \A f \in mapped : Key[f] # Key[e]
        /\ \A j \in Isolates : holds[j] # e   \* a new object
  /\ mapped' = mapped \cup {e}
  /\ holds' = [holds EXCEPT ![i] = e]
  /\ UNCHANGED <<work, lock, toStop, pc, on, fresh, answering, engineVars, refs, connVars, historyVars>>

\* resetAll(): stop every mapped engine ...
ResetAll(i) ==
  /\ Defined /\ "reset" \in work.may[i]
  /\ pc[i] = "idle" /\ lock = None /\ mapped # {}
  /\ lock' = i /\ toStop' = mapped
  /\ UNCHANGED <<work, mapped, callVars, engineVars, refs, connVars, historyVars>>

ResetStops(i, e) ==
  /\ lock = i /\ pc[i] = "idle" /\ e \in toStop
  /\ toStop' = toStop \ {e}
  /\ on' = [on EXCEPT ![i] = e] /\ Goes(i, "claim")
  /\ UNCHANGED <<work, mapped, lock, holds, fresh, answering, engineVars, refs, connVars, historyVars>>

\* ... and forget them.
ResetEnds(i) ==
  /\ Defined /\ lock = i /\ pc[i] = "idle" /\ toStop = {}
  /\ lock' = None /\ mapped' = {}
  /\ UNCHANGED <<work, toStop, callVars, engineVars, refs, connVars, historyVars>>

\* An isolate calls its engine: start, stop, reloadTls, respond.
Calls(i, op, step) ==
  /\ op \in work.may[i]
  /\ pc[i] = "idle" /\ lock # i /\ holds[i] # None
  /\ on' = [on EXCEPT ![i] = holds[i]]
  /\ Goes(i, step)

(***************************************************************************)
(* start().                                                                *)
(***************************************************************************)
Starts(i) ==
  /\ Calls(i, "serve", "tls") /\ ~running[holds[i]]
  /\ running' = [running EXCEPT ![holds[i]] = TRUE]
  /\ UNCHANGED <<registryVars, holds, fresh, answering, draining, cfgPort, reserved, sslCtx, loops, boundPorts, refs, connVars, historyVars>>

\* setupTls(): stores the context it builds.
StartSetsUpTls(i) ==
  LET e == on[i]
  IN /\ pc[i] = "tls"
     /\ \/ /\ e \notin Tls
           /\ Goes(i, "reserve")
           /\ UNCHANGED <<sslCtx, refs, orphaned, running>>
        \/ /\ e \in Tls
           /\ \E x \in NewCtx : /\ sslCtx' = [sslCtx EXCEPT ![e] = x]
                                /\ refs' = [refs EXCEPT ![x] = 1]
           /\ orphaned' = orphaned \cup ({sslCtx[e]} \ {None})
           /\ Goes(i, "reserve") /\ UNCHANGED running
        \/ /\ e \in Tls   \* the certificate or the key does not load
           /\ running' = [running EXCEPT ![e] = FALSE]
           /\ Goes(i, "idle") /\ UNCHANGED <<sslCtx, refs, orphaned>>
     /\ UNCHANGED <<registryVars, holds, on, fresh, answering, draining, cfgPort, reserved, loops, boundPorts, connVars, swapped, outlived, misused>>

\* Slip: the refused start leaves running_ set.
StartReservesStaysUp(i) ==
  LET e == on[i]
      p == cfgPort[e]
  IN /\ pc[i] = "reserve"
     /\ IF p \in boundPorts
        THEN /\ running' = running
             /\ Goes(i, "idle") /\ UNCHANGED <<boundPorts, reserved>>
        ELSE /\ boundPorts' = boundPorts \cup ({p} \ {0})
             /\ reserved' = IF p = 0 THEN reserved ELSE [reserved EXCEPT ![e] = p]
             /\ Goes(i, "bind") /\ UNCHANGED running
     /\ UNCHANGED <<registryVars, holds, on, fresh, answering, draining, cfgPort, sslCtx, loops, refs, connVars, historyVars>>

\* A fixed port is reserved before anything is bound.
StartReserves(i) ==
  LET e == on[i]
      p == cfgPort[e]
  IN /\ pc[i] = "reserve"
     /\ IF p \in boundPorts
        THEN /\ running' = [running EXCEPT ![e] = FALSE]
             /\ Goes(i, "idle") /\ UNCHANGED <<boundPorts, reserved>>
        ELSE /\ boundPorts' = boundPorts \cup ({p} \ {0})
             /\ reserved' = IF p = 0 THEN reserved ELSE [reserved EXCEPT ![e] = p]
             /\ Goes(i, "bind") /\ UNCHANGED running
     /\ UNCHANGED <<registryVars, holds, on, fresh, answering, draining, cfgPort, sslCtx, loops, refs, connVars, historyVars>>

\* Phase one: the listeners.  The first one tells the port.
StartBinds(i) ==
  LET e == on[i]
  IN /\ pc[i] = "bind"
     /\ \E p \in Ports :
          /\ IF cfgPort[e] = 0 THEN p \notin boundPorts ELSE p = cfgPort[e]
          /\ cfgPort' = [cfgPort EXCEPT ![e] = p]
          /\ IF reserved[e] = 0
             THEN /\ reserved' = [reserved EXCEPT ![e] = p]
                  /\ boundPorts' = boundPorts \cup {p}
             ELSE UNCHANGED <<reserved, boundPorts>>
     /\ Goes(i, "loops")
     /\ UNCHANGED <<registryVars, holds, on, fresh, answering, running, draining, sslCtx, loops, refs, connVars, historyVars>>

\* releaseAndFail: a listener that cannot be bound, the first or a later one.
StartFails(i) ==
  LET e == on[i]
  IN /\ pc[i] \in {"bind", "loops"}
     /\ boundPorts' = boundPorts \ {reserved[e]}
     /\ reserved' = [reserved EXCEPT ![e] = 0]
     /\ running' = [running EXCEPT ![e] = FALSE]
     /\ Goes(i, "idle")
     /\ UNCHANGED <<registryVars, holds, on, fresh, answering, draining, cfgPort, sslCtx, loops, refs, connVars, historyVars>>

\* Phase two: the loops and their threads.
StartLoops(i) ==
  /\ pc[i] = "loops"
  /\ loops' = [loops EXCEPT ![on[i]] = "up"]
  /\ Goes(i, "idle")
  /\ UNCHANGED <<registryVars, holds, on, fresh, answering, running, draining, cfgPort, reserved, sslCtx, boundPorts, refs, connVars, historyVars>>

(***************************************************************************)
(* stop(), called by an isolate or from resetAll.                          *)
(***************************************************************************)
Stops(i) ==
  /\ Calls(i, "serve", "claim")
  /\ UNCHANGED <<registryVars, holds, fresh, answering, engineVars, refs, connVars, historyVars>>

Starting(e) == \E i \in Isolates : on[i] = e /\ pc[i] \in {"tls", "reserve", "bind", "loops"}

\* Slip: the loops are not told.
StopClaimsQuietly(i) ==
  LET e == on[i]
  IN /\ pc[i] = "claim"
     /\ running' = [running EXCEPT ![e] = FALSE]
     /\ loops' = [loops EXCEPT ![e] = @]
     /\ misused' = IF running[e] /\ Starting(e) THEN {"race"} ELSE {}
     /\ Goes(i, IF running[e] THEN "join" ELSE "idle")
     /\ UNCHANGED <<registryVars, holds, on, fresh, answering, draining, cfgPort, reserved, sslCtx, boundPorts, refs, connVars, orphaned, swapped, outlived>>

\* Only the stop that takes running_ down goes on; it tells the loops.
StopClaims(i) ==
  LET e == on[i]
  IN /\ pc[i] = "claim"
     /\ running' = [running EXCEPT ![e] = FALSE]
     /\ loops' = [loops EXCEPT ![e] = IF running[e] /\ @ = "up" THEN "stopping" ELSE @]
     /\ misused' = IF running[e] /\ Starting(e) THEN {"race"} ELSE {}
     /\ Goes(i, IF running[e] THEN "join" ELSE "idle")
     /\ UNCHANGED <<registryVars, holds, on, fresh, answering, draining, cfgPort, reserved, sslCtx, boundPorts, refs, connVars, orphaned, swapped, outlived>>

\* Slip: the loops are cleared without a join.
StopClears(i) ==
  LET e == on[i]
  IN /\ pc[i] = "join" /\ TRUE
     /\ loops' = [loops EXCEPT ![e] = "none"]   \* loops_.clear()
     /\ Goes(i, "release")
     /\ outlived' = outlived \cup {j \in Isolates : on[j] = e /\ pc[j] = "pushing"}
     /\ UNCHANGED <<registryVars, holds, on, fresh, answering, running, draining, cfgPort, reserved, sslCtx, boundPorts, refs, connVars, orphaned, swapped, misused>>

StopJoins(i) ==
  LET e == on[i]
  IN /\ pc[i] = "join" /\ loops[e] \in {"none", "down"}
     /\ loops' = [loops EXCEPT ![e] = "none"]   \* loops_.clear()
     /\ Goes(i, "release")
     /\ outlived' = outlived \cup {j \in Isolates : on[j] = e /\ pc[j] = "pushing"}
     /\ UNCHANGED <<registryVars, holds, on, fresh, answering, running, draining, cfgPort, reserved, sslCtx, boundPorts, refs, connVars, orphaned, swapped, misused>>

StopReleases(i) ==
  LET e == on[i]
  IN /\ pc[i] = "release"
     /\ boundPorts' = boundPorts \ {reserved[e]}
     /\ reserved' = [reserved EXCEPT ![e] = 0]
     /\ sslCtx' = [sslCtx EXCEPT ![e] = None]
     /\ IF sslCtx[e] = None THEN UNCHANGED refs ELSE Drop(sslCtx[e])
     /\ Goes(i, "idle")
     /\ UNCHANGED <<registryVars, holds, on, fresh, answering, running, draining, cfgPort, loops, connVars, historyVars>>

\* The stopping flag seen by onAsync: every connection of the loop is closed
\* (onCloseConn), and the thread ends.
LoopEnds(e) ==
  LET mine == {k \in Conns : at[k] = e}
  IN /\ Defined /\ loops[e] = "stopping" /\ \A k \in mine : conn[k] # "accepting"
     /\ loops' = [loops EXCEPT ![e] = "down"]
     /\ conn' = [k \in Conns |-> IF k \in mine THEN "closed" ELSE conn[k]]
     /\ at' = [k \in Conns |-> IF k \in mine THEN None ELSE at[k]]
     /\ ctx' = [k \in Conns |-> IF k \in mine THEN None ELSE ctx[k]]
     /\ located' = located \ mine
     /\ refs' = [x \in Ctxs |-> refs[x] - Cardinality({k \in mine : ctx[k] = x})]
     /\ UNCHANGED <<registryVars, callVars, running, draining, cfgPort, reserved, sslCtx, boundPorts, historyVars>>

BeginDrain(i) ==
  /\ Defined /\ "serve" \in work.may[i]
  /\ pc[i] = "idle" /\ lock # i /\ holds[i] # None
  /\ draining' = [draining EXCEPT ![holds[i]] = TRUE]
  /\ UNCHANGED <<registryVars, callVars, running, cfgPort, reserved, sslCtx, loops, boundPorts, refs, connVars, historyVars>>

(***************************************************************************)
(* reloadTls() and the contexts.                                           *)
(***************************************************************************)
Reloads(i) ==
  /\ Calls(i, "reload", "build") /\ sslCtx[holds[i]] # None
  /\ UNCHANGED <<registryVars, holds, fresh, answering, engineVars, refs, connVars, historyVars>>

\* buildSslCtx(): a context, or an error that leaves the live one alone.
ReloadBuilds(i) ==
  /\ pc[i] = "build"
  /\ \/ \E x \in NewCtx : /\ refs' = [refs EXCEPT ![x] = 1]
                          /\ fresh' = [fresh EXCEPT ![i] = x]
                          /\ Goes(i, "swap")
     \/ Goes(i, "idle") /\ UNCHANGED <<refs, fresh>>
  /\ UNCHANGED <<registryVars, holds, on, answering, engineVars, connVars, historyVars>>

\* Slip: the old context is not freed.
ReloadLeaks(i) ==
  LET e == on[i]
      old == sslCtx[e]
  IN /\ pc[i] = "swap"
     /\ sslCtx' = [sslCtx EXCEPT ![e] = fresh[i]]
     /\ fresh' = [fresh EXCEPT ![i] = None]
     /\ UNCHANGED refs
     /\ swapped' = swapped \cup {k \in Conns : conn[k] = "accepting" /\ at[k] = e}
     /\ Goes(i, "idle")
     /\ UNCHANGED <<registryVars, holds, on, answering, running, draining, cfgPort, reserved, loops, boundPorts, connVars, orphaned, outlived, misused>>

ReloadSwaps(i) ==
  LET e == on[i]
      old == sslCtx[e]
  IN /\ pc[i] = "swap"
     /\ sslCtx' = [sslCtx EXCEPT ![e] = fresh[i]]
     /\ fresh' = [fresh EXCEPT ![i] = None]
     /\ IF old = None THEN UNCHANGED refs ELSE Drop(old)
     /\ swapped' = swapped \cup {k \in Conns : conn[k] = "accepting" /\ at[k] = e}
     /\ Goes(i, "idle")
     /\ UNCHANGED <<registryVars, holds, on, answering, running, draining, cfgPort, reserved, loops, boundPorts, connVars, orphaned, outlived, misused>>

(***************************************************************************)
(* Connections, on the loop's thread.                                      *)
(***************************************************************************)
\* onConnection: refused while draining, else a Conn; with TLS, tlsInit loads
\* the context ...
Accepts(e, k) ==
  /\ Defined /\ loops[e] = "up" /\ k \in work.conns /\ conn[k] \in {"new", "closed"} /\ ~draining[e]
  /\ \A j \in Conns : ~(at[j] = e /\ conn[j] = "accepting")
  /\ conn' = [conn EXCEPT ![k] = IF sslCtx[e] = None THEN "open" ELSE "accepting"]
  /\ at' = [at EXCEPT ![k] = e] /\ ctx' = [ctx EXCEPT ![k] = sslCtx[e]]
  /\ swapped' = swapped \ {k}
  /\ UNCHANGED <<registryVars, callVars, engineVars, refs, located, orphaned, outlived, misused>>

\* ... and SSL_new takes a reference on it.
TlsInit(k) ==
  /\ Defined /\ conn[k] = "accepting"
  /\ conn' = [conn EXCEPT ![k] = "open"]
  /\ refs' = [refs EXCEPT ![ctx[k]] = @ + 1]
  /\ misused' = IF refs[ctx[k]] = 0 THEN {"context"} ELSE {}
  /\ UNCHANGED <<registryVars, callVars, engineVars, at, ctx, located, orphaned, swapped, outlived>>

LoopRuns(k) == Defined /\ conn[k] = "open" /\ loops[at[k]] \in {"up", "stopping"}

Dispatches(k) ==
  /\ LoopRuns(k) /\ k \notin located
  /\ located' = located \cup {k}
  /\ UNCHANGED <<registryVars, callVars, engineVars, refs, conn, at, ctx, historyVars>>

\* onCloseConn: SSL_free drops the reference, the request is no longer found.
CloseConn(k) ==
  /\ LoopRuns(k)
  /\ conn' = [conn EXCEPT ![k] = "closed"] /\ at' = [at EXCEPT ![k] = None]
  /\ ctx' = [ctx EXCEPT ![k] = None] /\ located' = located \ {k}
  /\ IF ctx[k] = None THEN UNCHANGED refs ELSE Drop(ctx[k])
  /\ UNCHANGED <<registryVars, callVars, engineVars, historyVars>>

(***************************************************************************)
(* respond(), on the calling isolate's thread.                             *)
(***************************************************************************)
Responds(i) ==
  /\ Calls(i, "answer", "looking") /\ running[holds[i]]
  /\ UNCHANGED <<registryVars, holds, fresh, answering, engineVars, refs, connVars, historyVars>>

\* lookupReq() takes the entry: of two answers one finds it.
RespondLooks(i) ==
  /\ pc[i] = "looking"
  /\ \/ \E k \in located : /\ at[k] = on[i]
                           /\ located' = located \ {k}
                           /\ answering' = [answering EXCEPT ![i] = k]
                           /\ Goes(i, "pushing")
     \/ Goes(i, "idle") /\ UNCHANGED <<located, answering>>
  /\ UNCHANGED <<registryVars, holds, on, fresh, engineVars, refs, conn, at, ctx, historyVars>>

\* pushWrite() indexes loops_ and locks its queue.
RespondPushes(i) ==
  /\ pc[i] = "pushing"
  /\ answering' = [answering EXCEPT ![i] = None]
  /\ misused' = IF loops[on[i]] = "none" THEN {"loop"} ELSE {}
  /\ Goes(i, "idle")
  /\ UNCHANGED <<registryVars, holds, on, fresh, engineVars, refs, connVars, orphaned, swapped, outlived>>

StartStep(i) ==
  \/ StartSetsUpTls(i) \/ StartReserves(i) \/ StartBinds(i) \/ StartFails(i) \/ StartLoops(i)
StopStep(i) == StopClaims(i) \/ StopJoins(i) \/ StopReleases(i)
ResetStep(i) == ResetEnds(i) \/ \E e \in Engines : ResetStops(i, e)

Next ==
  \/ \E i \in Isolates :
       \/ \E e \in Engines : Resolve(i, e)
       \/ ResetAll(i) \/ ResetStep(i)
       \/ Starts(i) \/ StartStep(i) \/ Stops(i) \/ StopStep(i) \/ BeginDrain(i)
       \/ Reloads(i) \/ ReloadBuilds(i) \/ ReloadSwaps(i)
       \/ Responds(i) \/ RespondLooks(i) \/ RespondPushes(i)
  \/ \E e \in Engines : LoopEnds(e) \/ \E k \in Conns : Accepts(e, k)
  \/ \E k \in Conns : TlsInit(k) \/ Dispatches(k) \/ CloseConn(k)

\* Threads that are not blocked go on.
Fairness ==
  /\ \A i \in Isolates : WF_vars(StartStep(i) \/ StopStep(i) \/ ResetStep(i))
  /\ \A e \in Engines : WF_vars(LoopEnds(e))
  /\ \A k \in Conns : WF_vars(TlsInit(k))
Spec == Init /\ [][Next]_vars /\ Fairness

(***************************************************************************)
(* Properties.                                                             *)
(***************************************************************************)
Busy(e) == \E i \in Isolates : on[i] = e /\ pc[i] \in Steps \ {"idle", "build", "swap", "looking", "pushing"}

\* SO_REUSEPORT would let two engines share a port; boundPorts() is there so
\* that they never do.  It holds exactly the ports engines serve on, so a port
\* is neither taken twice nor lost by a start that failed half way.
PortsExact ==
  /\ boundPorts = {reserved[e] : e \in Engines} \ {0}
  /\ \A e, f \in Engines : e # f /\ reserved[e] = reserved[f] => reserved[e] = 0
  /\ \A e \in Engines : loops[e] = "up" => reserved[e] = cfgPort[e]

\* Between calls, an engine is up with its loops and its port or has neither:
\* no failed start, second stop, or reset in the middle of a stop leaves half
\* an engine.
WholeOrGone ==
  \A e \in Engines : ~Busy(e) =>
    IF running[e] THEN loops[e] = "up" ELSE loops[e] = "none" /\ reserved[e] = 0

\* Both: what start(), its failures, stop() and resetAll() leave behind.
EnginesWhole == PortsExact /\ WholeOrGone

\* The references on a context are the engine it serves, the connections made
\* with it and the reload that built it: a certificate in use is never freed,
\* and one no longer used always is, but for the one that a start abandoned
\* (it failed after setupTls) and the next start stored over.
Holders(x) ==
  Cardinality({e \in Engines : sslCtx[e] = x}) + Cardinality({i \in Isolates : fresh[i] = x})
  + Cardinality({k \in Conns : ctx[k] = x /\ conn[k] = "open"})
  + (IF x \in orphaned THEN 1 ELSE 0)
RefsExact == TypeOK /\ ("context" \notin misused => \A x \in Ctxs : refs[x] = Holders(x))

\* Undefined behaviour is met in three windows only: a reload swaps the context
\* between its load and SSL_new in tlsInit; an answer that found its request
\* before a stop() reaches the loop's queue after it; a reset stops an engine
\* that another isolate is starting.
OnlyInWindows ==
  [][ /\ "context" \in misused' => \E k \in swapped : conn[k] = "accepting"
      /\ "loop" \in misused' => \E i \in outlived : pc[i] = "pushing"
      /\ "race" \in misused' => lock # None /\ Starting(on[lock]) ]_vars

\* respond(): "After stop() the loops are torn down, so a late answer from Dart
\* must be a no-op."  It never touches a loop that is gone.
LateAnswerIsNoOp == "loop" \notin misused

\* reloadTls(): "the old ctx frees only once the last connection using it
\* closes."  A connection never starts on a context that was freed.
ContextOutlivesUse == "context" \notin misused

\* stop() joins every loop: it returns, whatever is accepted, answered or
\* reloaded meanwhile, and so does resetAll with the registry's mutex held.
StopReturns ==
  /\ \A i \in Isolates : pc[i] = "join" ~> pc[i] = "idle" \/ ~Defined
  /\ lock # None ~> lock = None \/ ~Defined
=============================================================================
