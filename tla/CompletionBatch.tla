-------------------------- MODULE CompletionBatch --------------------------
(***************************************************************************)
(* How results and stream items reach a Dart isolate.  NitroCompletionBatch*)
(* (src/native/nitro_completion_batch.h) keeps at most one message in      *)
(* flight per port and sends what arrives meanwhile in one batch on the    *)
(* acknowledgement; the stream registries of the generated bridge          *)
(* (bridge.g.cpp, _NitroStreamPorts and the emit functions) post a copy of *)
(* every item to every subscribed port through it; and a lone async call   *)
(* may take its result from one shared spin slot instead of a port.        *)
(*                                                                         *)
(* Emitters are native threads in emit_*.  A call is one asynchronous      *)
(* native call: its isolate (calls of one isolate share their batch port)  *)
(* and the worker that posts its result.  A step ends where the code       *)
(* releases a mutex, or makes one atomic access to spinId_ or flag.        *)
(***************************************************************************)
EXTENDS Naturals, Sequences, SequencesExt

CONSTANTS StreamPorts,  \* ReceivePorts of stream subscriptions
          Emitters,     \* native threads that emit
          Calls,        \* asynchronous native calls
          Scalars,      \* the calls whose result fits the spin slot
          BatchPort,    \* BatchPort[c]: the port the isolate of c bound
          Workloads,    \* what runs together: posters, subscriptions, items emitted
          MaxItems      \* the most items a workload emits

Posters == Emitters \cup Calls
BatchPorts == {BatchPort[c] : c \in Calls}
Ports == StreamPorts \cup BatchPorts
None == "none"
\* A heap copy made by emit_* (item, port), or the result of a call.
Copies == (1 .. MaxItems) \X StreamPorts
ItemPayloads == Copies \cup Calls

ASSUME BatchAssumption == /\ StreamPorts \cap BatchPorts = {}
                          /\ Emitters \cap Calls = {} /\ Scalars \subseteq Calls
                          /\ None \notin Posters \cup Ports
                          /\ \A w \in Workloads : /\ w.posters \subseteq Posters
                                                 /\ w.ports \subseteq StreamPorts
                                                 /\ w.items \in 0 .. MaxItems

VARIABLES
  workload,   \* the posters, ports and items of this behaviour
  open,       \* ports whose ReceivePort is open
  registered, \* _NitroStreamPorts.byInstance: the subscribed ports
  coalesced,  \* coalesced_
  bound,      \* bound_: calls with an entry
  inFlight,   \* ports_[p].inFlight
  pending,    \* ports_[p].pending
  wire,       \* messages posted to p and not handled: sequences of payloads
  dart,       \* what the isolate does with p: "idle", "acking", "flushing", "releasing"
  flush,      \* what ack(p) swapped out and has not posted
  issued,     \* items emitted
  pc,         \* where a poster is: "idle", "check", "slot", "cas", "park", "free", "lock", "send"
  todo,       \* ports of the emitter's snapshot still to be posted to
  item,       \* the item an emitter is posting
  spinId, flag, slot,  \* spinId_, spin_.flag, spin_'s payload
  caller,     \* a call's isolate: "idle", "bound", "claimed", "spinning", "waiting", ...
  got,        \* payloads handed to Dart, per port, and per call that spun
  order,      \* history: payloads in the order their posts took the mutex
  frees,      \* history: how often a copy was freed natively
  overtaken   \* history: the slot was claimed while another call still polls it

streamVars == <<registered, coalesced, issued, todo, item, frees>>
batchVars == <<bound, inFlight, pending, wire, order>>
portVars == <<open, dart, flush>>
spinVars == <<spinId, flag, slot, caller, overtaken>>
allBatchVars == <<workload, streamVars, batchVars, portVars, spinVars, pc, got>>

BatchTypeOK ==
  /\ workload \in Workloads
  /\ open \subseteq Ports /\ ToSet(registered) \subseteq StreamPorts
  /\ coalesced \subseteq StreamPorts /\ bound \subseteq Calls
  /\ inFlight \subseteq Ports
  /\ \A p \in Ports : /\ \A i \in 1 .. Len(pending[p]) : pending[p][i] \in ItemPayloads
                      /\ Len(pending[p]) + Len(flush[p]) <= MaxItems
  /\ dart \in [Ports -> {"idle", "acking", "flushing", "releasing"}]
  /\ issued \in 0 .. MaxItems
  /\ \A t \in Emitters : ToSet(todo[t]) \subseteq StreamPorts
  /\ item \in [Emitters -> 0 .. MaxItems]
  /\ pc \in [Posters -> {"idle", "check", "slot", "cas", "park", "free", "lock", "send", "done"}]
  /\ spinId \in Calls \cup {None} /\ slot \in Calls \cup {None}
  /\ flag \in {"kPending", "kDone", "kParked"}
  /\ caller \in [Calls -> {"idle", "bound", "claimed", "armed", "spinning", "copied",
                           "gaveUp", "waiting", "returned", "threw"}]
  /\ frees \in [Copies -> Nat]

BatchInit ==
  /\ workload \in Workloads
  /\ open = Ports /\ registered = <<>> /\ coalesced = {} /\ bound = {}
  /\ inFlight = {} /\ pending = [p \in Ports |-> <<>>] /\ wire = [p \in Ports |-> <<>>]
  /\ dart = [p \in Ports |-> "idle"] /\ flush = [p \in Ports |-> <<>>]
  /\ issued = 0
  /\ pc = [t \in Posters |-> "idle"]
  /\ todo = [t \in Emitters |-> <<>>] /\ item = [t \in Emitters |-> 0]
  /\ spinId = None /\ flag = "kParked" /\ slot = None
  /\ caller = [c \in Calls |-> "idle"]
  /\ got = [x \in Ports \cup Calls |-> <<>>]
  /\ order = [p \in Ports |-> <<>>]
  /\ frees = [c \in Copies |-> 0] /\ overtaken = FALSE

(***************************************************************************)
(* Posting.  Dart_PostCObject_DL takes a message when the port is open.    *)
(***************************************************************************)
DartPost(p, msg) ==
  wire' = IF p \in open THEN [wire EXCEPT ![p] = Append(@, msg)] ELSE wire

Free(copies) == frees' = [c \in Copies |-> frees[c] + IF c \in copies THEN 1 ELSE 0]

\* Slip: a payload replaces what already waits.
EnqueueLatest(p, payload) ==
  /\ order' = [order EXCEPT ![p] = Append(@, payload)]
  /\ pending' = IF p \in inFlight THEN [pending EXCEPT ![p] = <<payload>>] ELSE pending
  /\ inFlight' = inFlight \cup {p}

\* The mutex section of post() for a payload whose batch port is known: kept
\* when a message is in flight, else this thread sends it after the unlock.
Enqueue(p, payload) ==
  /\ order' = [order EXCEPT ![p] = Append(@, payload)]
  /\ IF p \in inFlight
     THEN /\ pending' = [pending EXCEPT ![p] = Append(@, payload)]
          /\ UNCHANGED inFlight
     ELSE /\ inFlight' = inFlight \cup {p}
          /\ UNCHANGED pending

(***************************************************************************)
(* Streams: subscribe, emit, release.                                      *)
(***************************************************************************)
\* nitro_server_register_*_stream; a subscription has a port of its own.
Register(p) ==
  /\ p \in open \cap workload.ports /\ p \notin coalesced
  /\ coalesced' = coalesced \cup {p}
  /\ registered' = Append(registered, p)
  /\ UNCHANGED <<workload, issued, todo, item, frees, batchVars, portVars, spinVars, pc, got>>

\* nitro_server_release_*_stream: first the registry ...
ReleaseRemoves(p) ==
  /\ p \in coalesced \cap open /\ dart[p] = "idle"
  /\ registered' = Remove(registered, p)
  /\ dart' = [dart EXCEPT ![p] = "releasing"]
  /\ UNCHANGED <<workload, coalesced, issued, todo, item, frees, batchVars, open, flush, spinVars, pc, got>>

\* ... then uncoalesce, which frees what waited for an acknowledgement.  The
\* subscription then closes its port.
Uncoalesce(p) ==
  /\ dart[p] = "releasing"
  /\ coalesced' = coalesced \ {p}
  /\ inFlight' = inFlight \ {p}
  /\ pending' = [pending EXCEPT ![p] = <<>>]
  /\ Free(ToSet(pending[p]))
  /\ dart' = [dart EXCEPT ![p] = "idle"]
  /\ open' = open \ {p}
  /\ wire' = [wire EXCEPT ![p] = <<>>]
  /\ UNCHANGED <<workload, registered, issued, todo, item, bound, order, flush, spinVars, pc, got>>

\* An isolate that dies closes its ports and releases nothing.
Dies(p) ==
  /\ p \in coalesced \cap open /\ dart[p] = "idle"
  /\ open' = open \ {p}
  /\ wire' = [wire EXCEPT ![p] = <<>>]
  /\ UNCHANGED <<workload, streamVars, bound, inFlight, pending, order, dart, flush, spinVars, pc, got>>

\* emit_*: take the subscribers; without any the item is dropped.
EmitItem(t) ==
  /\ t \in workload.posters \cap Emitters /\ pc[t] = "idle" /\ issued < workload.items
  /\ issued' = issued + 1
  /\ item' = [item EXCEPT ![t] = issued + 1]
  /\ todo' = [todo EXCEPT ![t] = registered]
  /\ pc' = [pc EXCEPT ![t] = IF registered = <<>> THEN "idle" ELSE "lock"]
  /\ UNCHANGED <<workload, registered, coalesced, frees, batchVars, portVars, spinVars, got>>

\* The loop of emit_* goes to its next port, or ends.
NextPort(t) ==
  /\ todo' = [todo EXCEPT ![t] = Tail(@)]
  /\ pc' = [pc EXCEPT ![t] = IF Len(todo[t]) = 1 THEN "idle" ELSE "lock"]

\* What emit_* does with the answer of post(): a copy no port took is freed,
\* and the port dropped.
Posted(p, copy) ==
  IF p \in open THEN UNCHANGED <<registered, frees>>
  ELSE Free({copy}) /\ registered' = Remove(registered, p)

\* post() of the copy for the next port, under the mutex: it waits for the
\* acknowledgement, or is this thread's to send; a port that does not coalesce
\* (any more) is posted to at once.
EmitPosts(t) ==
  LET p == Head(todo[t])
      copy == <<item[t], p>>
  IN /\ t \in Emitters /\ pc[t] = "lock"
     /\ \/ /\ p \in coalesced
           /\ Enqueue(p, copy)
           /\ IF p \in inFlight THEN NextPort(t)
              ELSE pc' = [pc EXCEPT ![t] = "send"] /\ UNCHANGED todo
           /\ UNCHANGED <<registered, frees, wire>>
        \/ /\ p \notin coalesced
           /\ DartPost(p, <<copy>>)
           /\ NextPort(t)
           /\ Posted(p, copy)
           /\ UNCHANGED <<order, inFlight, pending>>
     /\ UNCHANGED <<workload, coalesced, issued, item, bound, portVars, spinVars, got>>

\* postItems of post(), after the unlock.
EmitSends(t) ==
  LET p == Head(todo[t])
      copy == <<item[t], p>>
  IN /\ t \in Emitters /\ pc[t] = "send"
     /\ DartPost(p, <<copy>>)
     /\ NextPort(t)
     /\ Posted(p, copy)
     /\ UNCHANGED <<workload, coalesced, issued, item, bound, inFlight, pending, order, portVars, spinVars, got>>

(***************************************************************************)
(* The isolate: handle a message, acknowledge it.  From bind() until it    *)
(* waits for the port a call keeps its isolate.                            *)
(***************************************************************************)
KeptByCall(p) ==
  \E c \in Calls : /\ BatchPort[c] = p
                   /\ caller[c] \in {"bound", "claimed", "armed", "spinning", "gaveUp", "copied"}

Receive(p) ==
  /\ wire[p] # <<>> /\ dart[p] = "idle" /\ ~KeptByCall(p)
  /\ got' = [got EXCEPT ![p] = @ \o Head(wire[p])]
  /\ wire' = [wire EXCEPT ![p] = Tail(@)]
  /\ dart' = [dart EXCEPT ![p] = "acking"]
  /\ caller' = [c \in Calls |-> IF c \in ToSet(Head(wire[p])) /\ caller[c] = "waiting"
                                THEN "returned" ELSE caller[c]]
  /\ UNCHANGED <<workload, streamVars, bound, inFlight, pending, order, open, flush, spinId, flag, slot, overtaken, pc>>

\* ack() under the mutex: idle when nothing waits, else take what waits.
Ack(p) ==
  /\ dart[p] = "acking"
  /\ IF pending[p] = <<>>
     THEN /\ inFlight' = inFlight \ {p}
          /\ dart' = [dart EXCEPT ![p] = "idle"]
          /\ UNCHANGED <<pending, flush>>
     ELSE /\ flush' = [flush EXCEPT ![p] = pending[p]]
          /\ pending' = [pending EXCEPT ![p] = <<>>]
          /\ dart' = [dart EXCEPT ![p] = "flushing"]
          /\ UNCHANGED inFlight
  /\ UNCHANGED <<workload, streamVars, bound, wire, order, open, spinVars, pc, got>>

\* ack() after the unlock: one message with all that waited.
AckFlushes(p) ==
  /\ dart[p] = "flushing"
  /\ DartPost(p, flush[p])
  /\ IF p \in StreamPorts \ open THEN Free(ToSet(flush[p])) ELSE UNCHANGED frees
  /\ flush' = [flush EXCEPT ![p] = <<>>]
  /\ dart' = [dart EXCEPT ![p] = "idle"]
  /\ UNCHANGED <<workload, registered, coalesced, issued, todo, item, bound, inFlight, pending, order, open, spinVars, pc, got>>

(***************************************************************************)
(* Asynchronous calls: bind, claim the spin slot, spin or wait.            *)
(***************************************************************************)
spinRest == <<workload, streamVars, portVars>>

\* bind()
Bind(c) ==
  /\ c \in workload.posters \cap Calls /\ caller[c] = "idle"
  /\ ~KeptByCall(BatchPort[c]) /\ dart[BatchPort[c]] = "idle"
  /\ bound' = bound \cup {c}
  /\ caller' = [caller EXCEPT ![c] = "bound"]
  /\ UNCHANGED <<spinRest, inFlight, pending, wire, order, spinId, flag, slot, overtaken, pc, got>>

\* arm(): the claim of spinId_ ...
ArmClaims(c) ==
  /\ caller[c] = "bound" /\ spinId = None
  /\ spinId' = c
  /\ caller' = [caller EXCEPT ![c] = "claimed"]
  /\ overtaken' = (overtaken \/ \E d \in Calls : caller[d] \in {"spinning", "gaveUp"})
  /\ UNCHANGED <<spinRest, batchVars, flag, slot, pc, got>>

\* ... and the reset of the slot.
ArmPublishes(c) ==
  /\ caller[c] = "claimed"
  /\ slot' = None /\ flag' = "kPending"
  /\ caller' = [caller EXCEPT ![c] = "armed"]
  /\ UNCHANGED <<spinRest, batchVars, spinId, overtaken, pc, got>>

\* The native call starts its worker; without the slot the isolate waits for
\* the port.
DispatchCall(c) ==
  /\ caller[c] \in {"bound", "armed"}
  /\ caller' = [caller EXCEPT ![c] = IF @ = "armed" THEN "spinning" ELSE "waiting"]
  /\ pc' = [pc EXCEPT ![c] = "check"]
  /\ UNCHANGED <<spinRest, batchVars, spinId, flag, slot, overtaken, got>>

\* The call throws before it has a worker: disarm().
Disarm(c) ==
  /\ caller[c] \in {"bound", "armed"}
  /\ spinId' = IF spinId = c THEN None ELSE spinId
  /\ caller' = [caller EXCEPT ![c] = "threw"]
  /\ UNCHANGED <<spinRest, batchVars, flag, slot, overtaken, pc, got>>

\* poll() after its load of the flag: copy the payload, go on, or wait.
Reads(c) ==
  /\ caller' = [caller EXCEPT ![c] = CASE flag = "kDone" -> "copied"
                                       [] flag = "kPending" /\ caller[c] = "spinning" -> "spinning"
                                       [] OTHER -> "waiting"]
  /\ got' = IF flag = "kDone" THEN [got EXCEPT ![c] = Append(@, slot)] ELSE got

Poll(c) ==
  /\ caller[c] = "spinning" /\ flag # "kPending"
  /\ Reads(c)
  /\ UNCHANGED <<spinRest, batchVars, spinId, flag, slot, overtaken, pc>>

\* poll(giveUp): the exchange of the flag ...
PollGivesUp(c) ==
  /\ caller[c] = "spinning"
  /\ flag' = IF flag = "kPending" THEN "kParked" ELSE flag
  /\ caller' = [caller EXCEPT ![c] = "gaveUp"]
  /\ UNCHANGED <<spinRest, batchVars, spinId, slot, overtaken, pc, got>>

\* ... and its load.
PollAfterGivingUp(c) ==
  /\ caller[c] = "gaveUp"
  /\ Reads(c)
  /\ UNCHANGED <<spinRest, batchVars, spinId, flag, slot, overtaken, pc>>

\* poll() on a hit: the reader frees the slot.
PollReleases(c) ==
  /\ caller[c] = "copied"
  /\ spinId' = None
  /\ caller' = [caller EXCEPT ![c] = "returned"]
  /\ UNCHANGED <<spinRest, batchVars, flag, slot, overtaken, pc, got>>

(***************************************************************************)
(* The worker of a call: post(id, result).                                 *)
(***************************************************************************)
WorkerStep(c, from, to) ==
  /\ c \in Calls /\ pc[c] = from
  /\ pc' = [pc EXCEPT ![c] = to]

PostChecksSlot(c) ==
  /\ WorkerStep(c, "check", IF spinId = c THEN "slot" ELSE "lock")
  /\ UNCHANGED <<spinRest, batchVars, spinVars, got>>

\* A scalar goes into the slot; for any other result Dart must stop spinning.
PostWritesSlot(c) ==
  /\ c \in Scalars /\ WorkerStep(c, "slot", "cas")
  /\ slot' = c
  /\ UNCHANGED <<spinRest, batchVars, spinId, flag, caller, overtaken, got>>

PostParks(c) ==
  /\ c \notin Scalars /\ WorkerStep(c, "slot", "free")
  /\ flag' = IF flag = "kPending" THEN "kParked" ELSE flag
  /\ UNCHANGED <<spinRest, batchVars, spinId, slot, caller, overtaken, got>>

\* Slips: a result in the slot is posted as well; the flag is stored without
\* looking at it.
PostDecidesBoth(c) ==
  /\ WorkerStep(c, "cas", IF flag = "kPending" THEN "lock" ELSE "free")
  /\ flag' = IF flag = "kPending" THEN "kDone" ELSE flag
  /\ UNCHANGED <<spinRest, batchVars, spinId, slot, caller, overtaken, got>>
PostDecidesBlindly(c) ==
  /\ WorkerStep(c, "cas", "done")
  /\ flag' = "kDone"
  /\ bound' = bound \ {c}
  /\ UNCHANGED <<spinRest, inFlight, pending, wire, order, spinId, slot, caller, overtaken, got>>

\* The exchange that decides between the slot and the port.
PostDecides(c) ==
  /\ WorkerStep(c, "cas", IF flag = "kPending" THEN "done" ELSE "free")
  /\ flag' = IF flag = "kPending" THEN "kDone" ELSE flag
  /\ bound' = IF flag = "kPending" THEN bound \ {c} ELSE bound
  /\ UNCHANGED <<spinRest, inFlight, pending, wire, order, spinId, slot, caller, overtaken, got>>

PostFreesSlot(c) ==
  /\ WorkerStep(c, "free", "lock")
  /\ spinId' = None
  /\ UNCHANGED <<spinRest, batchVars, flag, slot, caller, overtaken, got>>

\* The mutex section for a bound id.
PostBound(c) ==
  /\ c \in bound /\ WorkerStep(c, "lock", IF BatchPort[c] \in inFlight THEN "done" ELSE "send")
  /\ bound' = bound \ {c}
  /\ Enqueue(BatchPort[c], c)
  /\ UNCHANGED <<spinRest, wire, spinVars, got>>

\* postPairs of post(), after the unlock.
PostSends(c) ==
  /\ WorkerStep(c, "send", "done")
  /\ DartPost(BatchPort[c], <<c>>)
  /\ UNCHANGED <<spinRest, bound, inFlight, pending, order, spinVars, got>>

(***************************************************************************)
(* The specification.                                                      *)
(***************************************************************************)
DartNext(p) == \/ Register(p) \/ ReleaseRemoves(p) \/ Uncoalesce(p) \/ Dies(p)
               \/ Receive(p) \/ Ack(p) \/ AckFlushes(p)
EmitterNext(t) == EmitItem(t) \/ EmitPosts(t) \/ EmitSends(t)
CallerGoesOn(c) == \/ ArmClaims(c) \/ ArmPublishes(c) \/ DispatchCall(c) \/ Disarm(c)
                   \/ Poll(c) \/ PollGivesUp(c) \/ PollAfterGivingUp(c) \/ PollReleases(c)
WorkerNext(c) == \/ PostChecksSlot(c) \/ PostWritesSlot(c) \/ PostParks(c) \/ PostDecides(c)
                 \/ PostFreesSlot(c) \/ PostBound(c) \/ PostSends(c)

BatchNext == \/ \E p \in Ports : DartNext(p)
        \/ \E t \in Emitters : EmitterNext(t)
        \/ \E c \in Calls : Bind(c) \/ CallerGoesOn(c) \/ WorkerNext(c)

(***************************************************************************)
(* Native threads run; an isolate handles and acknowledges its messages,   *)
(* finishes a release, goes on with a call it has begun, and does not spin *)
(* for good.                                                               *)
(***************************************************************************)
BatchFairness ==
  /\ WF_allBatchVars(\E p \in Ports : Uncoalesce(p) \/ Receive(p) \/ Ack(p) \/ AckFlushes(p))
  /\ WF_allBatchVars(\E t \in Emitters : EmitPosts(t) \/ EmitSends(t))
  /\ WF_allBatchVars(\E c \in Calls : WorkerNext(c))
  /\ WF_allBatchVars(\E c \in Calls : CallerGoesOn(c))

BatchSpec == BatchInit /\ [][BatchNext]_allBatchVars /\ BatchFairness

(***************************************************************************)
(* Properties.                                                             *)
(***************************************************************************)
\* At most one message is in flight per port: those posted, the one being
\* sent by a thread or by ack() and the one being handled are at most one, and
\* inFlight says so (the batching protocol of post() and ack()).
OneInFlight ==
  \A p \in Ports :
    LET senders == {t \in Emitters : pc[t] = "send" /\ Head(todo[t]) = p}
                     \cup {c \in Calls : pc[c] = "send" /\ BatchPort[c] = p}
        busy == Len(wire[p]) + (IF dart[p] \in {"acking", "flushing"} THEN 1 ELSE 0)
    IN p \in open /\ (p \in StreamPorts => p \in coalesced)
         => /\ busy + Cardinality(senders) <= 1
            /\ busy + Cardinality(senders) = 1 => p \in inFlight

\* An open subscription gets its items in the order their posts took the
\* mutex, none lost, none twice, however emitters and acknowledgements
\* interleave (post(), ack()).
InOrder ==
  \A p \in open :
    p \in BatchPorts \cup coalesced =>
      /\ IsPrefix(got[p], order[p])
      /\ IsPrefix(got[p] \o FlattenSeq(wire[p]) \o flush[p], order[p])

\* A copy is freed at most once, and never one that Dart has been handed or
\* can still be handed (emit_*, uncoalesce(), ack()).
FreedOnce ==
  \A c \in Copies :
    /\ frees[c] <= 1
    /\ frees[c] = 1 => /\ c \notin ToSet(got[c[2]]) \cup ToSet(pending[c[2]]) \cup ToSet(flush[c[2]])
                       /\ c \notin ToSet(FlattenSeq(wire[c[2]]))

\* The result of a call arrives once, by the slot or by the port, and is its
\* own -- unless the slot was claimed again while a poll still reads it (poll()
\* between its exchange and its load, post() in between).
ArrivesOnce ==
  \A c \in Calls :
    LET byPort == SelectSeq(got[BatchPort[c]], LAMBDA x : x = c)
    IN /\ Len(byPort) + Len(got[c]) <= 1
       /\ \A i \in 1 .. Len(got[c]) : got[c][i] = c
OnceUnlessOvertaken == overtaken \/ ArrivesOnce

\* What waits for an acknowledgement is sent, unless the subscription goes: an
\* emitter never leaves items behind a flag nobody will reset (post(), ack()).
ItemsArrive ==
  \A p \in StreamPorts : (pending[p] # <<>>) ~> (pending[p] = <<>> \/ p \notin open)

\* Every call that has a worker returns: no isolate waits at the port for a
\* result left in the slot (post(), poll()), the same race apart.
CallsReturn == \A c \in Calls : (pc[c] = "check") ~> (caller[c] = "returned" \/ overtaken)

\* A stream's batches are handed over one at a time, in order, and freed once
\* (post(), ack(), the port's finalizer).
BatchesHandedOver == BatchTypeOK /\ OneInFlight /\ InOrder /\ FreedOnce

\* Items and results arrive: nothing is left behind the busy flag of a stream
\* or in the slot of a call (post(), ack(), poll()).
EverythingArrives == ItemsArrive /\ CallsReturn
=============================================================================
