--------------------------- MODULE NativeBridge ---------------------------
(***************************************************************************)
(* The generated bridge between Dart and the engine: the table of bridge   *)
(* objects with its lock-free cache (_nitro_get_instance), the C wrappers  *)
(* every call goes through, the stream registries, and the bridge object   *)
(* itself (HybridNitroServerImpl), which is the sink of an engine's        *)
(* events from its constructor to its destructor.                          *)
(*                                                                         *)
(* An isolate owns one bridge object.  It creates it, listens, calls, and  *)
(* after the server is closed lets it go; its finalizer then destroys it.  *)
(* Objects are named by address, and an address is used again once free.   *)
(* The cache's id and pointer are two atomics: reading them is two steps,  *)
(* and so is writing them.                                                 *)
(***************************************************************************)
EXTENDS Integers, FiniteSets, TLC

CONSTANTS Isolates, Mains,  \* isolates, and those that own a server
          Keys, Key,        \* server keys; Key[t]: the server of an isolate
          Addresses, Null,  \* where an object may live; nullptr
          Streams,          \* how many streams an isolate listens to
          Ways,             \* _kNitroCacheWays
          Exercised,        \* wrappers the isolates call
          Workloads         \* the isolates there are, and how many calls each makes

VARIABLES
  work,       \* the workload, fixed: [isolates, calls]; listen, start, stop not counted
  instances,  \* _g_instances(), by id; Null when absent
  lastId,     \* _g_next_instance_id()
  lock,       \* _g_instances_mtx: the isolate that holds it
  cache,      \* _g_inst_cache: [id, ptr] of each way
  holder,     \* the isolate whose object lives at an address
  emitters,   \* emitters_ of each engine, the order aside
  running,    \* running_ of each engine
  ports,      \* the streams registries: [isolate, stream] under an address
  heard,      \* streams an isolate has registered its port for
  phase,      \* where an isolate's Dart side is
  mine, addr, \* its instance id and where the object lives
  pc, op, got,  \* its call: the step, the wrapper, the pointer resolved
  clear,      \* ways its destroy_instance has still to invalidate
  calls,      \* calls made
  last,       \* how its last call ended
  emitting,   \* the sink a loop of the engine has picked, Null when none
  torn,       \* history: isolates that read a way while its two halves were changing
  mistaken,   \* history: isolates a call of which did not reach their own object
  unheard,    \* history: engines that emitted to a sink nobody listens to
  misused     \* undefined behaviour met: a freed object called

tableVars == <<work, instances, lastId, lock, cache, holder>>
engineVars == <<emitters, running, emitting>>
dartVars == <<phase, mine, addr, calls>>
portVars == <<ports, heard>>
callVars == <<pc, op, got, clear, last>>
historyVars == <<torn, mistaken, unheard, misused>>
bridgeVars == <<tableVars, engineVars, portVars, dartVars, callVars, historyVars>>

Nobody == "nobody"
Ids == 1 .. Cardinality(Isolates) + 1
Way(id) == id % Ways
Defined == misused = {} /\ mistaken = {}  \* past a mistake nothing is asked

\* What the wrappers return when there is no object or the object throws.
FailCapabilities ==
  [engineVersion |-> "null", supportsTls |-> "false", resetNative |-> "void",
   supportsBrotli |-> "false", brotliEncode |-> "null", brotliDecode |-> "null"]
FailRoutes ==
  [configureServer |-> "void", reloadTls |-> "false", registerRoute |-> "null",
   unregisterRoute |-> "null", registerStaticRoute |-> "null"]
FailLifecycle ==
  [start |-> "null", stop |-> "void", beginDrain |-> "void", inFlightRequests |-> "zero",
   liveConnections |-> "zero", emitterId |-> "zero", detachEmitter |-> "false"]
FailAnswers ==
  [respondFile |-> "void", respond |-> "void", ackBody |-> "void", startStream |-> "void",
   sendStreamChunk |-> "void", wsSend |-> "zero", wsClose |-> "void"]
Fail == FailCapabilities @@ FailRoutes @@ FailLifecycle @@ FailAnswers

\* What the bridge object does with a record or header list it cannot decode.
BadCapabilities ==
  [engineVersion |-> "takes none", supportsTls |-> "takes none", resetNative |-> "takes none",
   supportsBrotli |-> "takes none", brotliEncode |-> "takes none", brotliDecode |-> "takes none"]
BadRoutes ==
  [configureServer |-> "throws", reloadTls |-> "throws", registerRoute |-> "throws",
   unregisterRoute |-> "takes none", registerStaticRoute |-> "status"]
BadLifecycle ==
  [start |-> "takes none", stop |-> "takes none", beginDrain |-> "takes none",
   inFlightRequests |-> "takes none", liveConnections |-> "takes none",
   emitterId |-> "takes none", detachEmitter |-> "takes none"]
BadAnswers ==
  [respondFile |-> "drops", respond |-> "drops", ackBody |-> "takes none",
   startStream |-> "drops", sendStreamChunk |-> "takes none", wsSend |-> "takes none",
   wsClose |-> "takes none"]
Bad == BadCapabilities @@ BadRoutes @@ BadLifecycle @@ BadAnswers

Wrappers == DOMAIN Fail
\* The wrappers exercised stand for all: of each there is one that fails alike.
ASSUME BridgeAssumption ==
  /\ Exercised \cup {"start", "stop", "detachEmitter"} \subseteq Wrappers
  /\ Mains \subseteq Isolates /\ Key \in [Isolates -> Keys]
  /\ Null \notin Addresses /\ Streams \in Nat \ {0} /\ Ways \in Nat \ {0}
  /\ IsFiniteSet(Isolates) /\ Nobody \notin Isolates
  /\ \A m, n \in Mains : m # n => Key[m] # Key[n]   \* a server has one owner
  /\ \A w \in Wrappers \ {"start", "stop", "detachEmitter"} :
        \E x \in Exercised : Fail[x] = Fail[w] /\ Bad[x] = Bad[w]

NoCall == [error |-> "none", result |-> "none", landed |-> Nobody]
BridgeTypeOK ==
  /\ instances \in [Ids -> Addresses \cup {Null}] /\ lastId \in Ids
  /\ lock \in Isolates \cup {Nobody}
  /\ cache \in [0 .. Ways - 1 -> [id : Ids \cup {-1}, ptr : Addresses \cup {Null}]]
  /\ holder \in [Addresses -> Isolates \cup {Nobody}] /\ emitters \in [Keys -> SUBSET Addresses]
  /\ running \in [Keys -> BOOLEAN] /\ emitting \in [Keys -> Addresses \cup {Null}]
  /\ ports \in [Addresses \cup {Null} -> SUBSET (Isolates \X (1 .. Streams))]
  /\ heard \in [Isolates -> 0 .. Streams]
  /\ phase \in [Isolates -> {"new", "created", "listening", "stopped", "cancelled", "gone", "dead"}]
  /\ mine \in [Isolates -> Ids \cup {0}] /\ addr \in [Isolates -> Addresses \cup {Null}]
  /\ pc \in [Isolates -> {"idle", "insert", "id", "ptr", "lock", "publish", "call", "clear"}]
  /\ op \in [Isolates -> Wrappers \cup {"listen", "none"}] /\ got \in [Isolates -> Addresses \cup {Null}]
  /\ clear \in [Isolates -> 0 .. 2 * Ways] /\ calls \in [Isolates -> Nat]
  /\ \A t \in Isolates : last[t].landed \in Isolates \cup {Nobody}
  /\ torn \subseteq Isolates /\ mistaken \subseteq Isolates /\ unheard \subseteq Keys

BridgeInit ==
  /\ work \in Workloads
  /\ instances = [i \in Ids |-> Null] /\ lastId = 1 /\ lock = Nobody
  /\ cache = [w \in 0 .. Ways - 1 |-> [id |-> -1, ptr |-> Null]]
  /\ holder = [a \in Addresses |-> Nobody] /\ emitters = [k \in Keys |-> {}]
  /\ running = [k \in Keys |-> FALSE] /\ emitting = [k \in Keys |-> Null]
  /\ ports = [a \in Addresses \cup {Null} |-> {}] /\ heard = [t \in Isolates |-> 0]
  /\ phase = [t \in Isolates |-> "new"] /\ mine = [t \in Isolates |-> 0]
  /\ addr = [t \in Isolates |-> Null]
  /\ pc = [t \in Isolates |-> "idle"] /\ op = [t \in Isolates |-> "none"]
  /\ got = [t \in Isolates |-> Null] /\ clear = [t \in Isolates |-> 0]
  /\ calls = [t \in Isolates |-> 0] /\ last = [t \in Isolates |-> NoCall]
  /\ torn = {} /\ mistaken = {} /\ unheard = {} /\ misused = {}

(***************************************************************************)
(* create_instance and destroy_instance                                    *)
(***************************************************************************)
\* The factory's make_shared: the constructor binds the new sink to the engine.
CreateMakes(t) ==
  /\ Defined /\ phase[t] = "new" /\ pc[t] = "idle" /\ t \in work.isolates
  /\ t \in Mains \/ \E m \in Mains : Key[m] = Key[t] /\ phase[m] = "listening"
  /\ \E a \in {x \in Addresses : holder[x] = Nobody} :
        /\ addr' = [addr EXCEPT ![t] = a] /\ holder' = [holder EXCEPT ![a] = t]
        /\ emitters' = [emitters EXCEPT ![Key[t]] = @ \cup {a}]
        /\ phase' = [phase EXCEPT ![t] = "created"] /\ pc' = [pc EXCEPT ![t] = "insert"]
  /\ UNCHANGED <<work, instances, lastId, lock, cache, running, emitting, portVars, mine, calls, op, got,
                 clear, last, historyVars>>

CreateInserts(t) ==
  LET id == lastId + 1
  IN /\ Defined /\ pc[t] = "insert" /\ lock = Nobody
     /\ lastId' = id /\ instances' = [instances EXCEPT ![id] = addr[t]]
     /\ mine' = [mine EXCEPT ![t] = id]
     /\ pc' = [pc EXCEPT ![t] = "idle"]
     /\ UNCHANGED <<work, lock, cache, holder, engineVars, portVars, phase, addr, calls, op, got, clear, last, historyVars>>

\* A destructor that leaves its sink bound.
SlipDestroyStaysBound(t) ==
  LET a == instances[mine[t]]
  IN /\ Defined /\ phase[t] = "cancelled" /\ pc[t] = "idle" /\ lock = Nobody
     /\ lock' = t /\ clear' = [clear EXCEPT ![t] = 2 * Ways] /\ pc' = [pc EXCEPT ![t] = "clear"]
     /\ ports' = [ports EXCEPT ![a] = {}]
     /\ instances' = [instances EXCEPT ![mine[t]] = Null]
     /\ holder' = [holder EXCEPT ![a] = Nobody] /\ phase' = [phase EXCEPT ![t] = "gone"]
     /\ UNCHANGED <<work, lastId, cache, engineVars, heard, mine, addr, calls, op, got, last, historyVars>>

\* Under the lock: the streams are dropped, the object erased, and with it
\* its sink unbound; the finalizer runs once the closed server is collected.
DestroyErases(t) ==
  LET a == instances[mine[t]]
  IN /\ Defined /\ phase[t] = "cancelled" /\ pc[t] = "idle" /\ lock = Nobody
     /\ lock' = t /\ clear' = [clear EXCEPT ![t] = 2 * Ways] /\ pc' = [pc EXCEPT ![t] = "clear"]
     /\ ports' = [ports EXCEPT ![a] = {}]
     /\ instances' = [instances EXCEPT ![mine[t]] = Null]
     /\ emitters' = [emitters EXCEPT ![Key[t]] = @ \ {a}]
     /\ holder' = [holder EXCEPT ![a] = Nobody] /\ phase' = [phase EXCEPT ![t] = "gone"]
     /\ UNCHANGED <<work, lastId, cache, running, emitting, heard, mine, addr, calls, op, got, last, historyVars>>

\* Readers a write of the way's pointer overtakes; a way that has the new
\* pointer and still the old id.
Overtaken(w) == {u \in Isolates : pc[u] = "ptr" /\ Way(mine[u]) = w}
HalfWritten(w) == \E u \in Isolates : pc[u] = "publish" /\ Way(mine[u]) = w

\* _nitro_invalidate_cache: of each way the id, then the pointer.
Invalidates(t) ==
  LET n == 2 * Ways - clear[t]
      w == n \div 2
  IN /\ pc[t] = "clear" /\ clear[t] > 0
     /\ IF n % 2 = 0
          THEN cache' = [cache EXCEPT ![w].id = -1] /\ UNCHANGED torn
          ELSE cache' = [cache EXCEPT ![w].ptr = Null] /\ torn' = torn \cup Overtaken(w)
     /\ clear' = [clear EXCEPT ![t] = @ - 1]
     /\ UNCHANGED <<work, instances, lastId, lock, holder, engineVars, portVars, dartVars, pc, op, got, last,
                    mistaken, unheard, misused>>

DestroyReturns(t) ==
  /\ pc[t] = "clear" /\ clear[t] = 0
  /\ lock' = Nobody /\ pc' = [pc EXCEPT ![t] = "idle"]
  /\ UNCHANGED <<work, instances, lastId, cache, holder, engineVars, portVars, dartVars, op, got, clear, last,
                 historyVars>>

(***************************************************************************)
(* A call: the object is looked up, then called                            *)
(***************************************************************************)
\* A listen, a start, a stop when its turn has come; other wrappers any time.
MayCall(t, w) ==
  CASE w = "listen" -> phase[t] = "created"
    [] w = "start" -> /\ t \in Mains /\ phase[t] = "listening" /\ ~running[Key[t]]
                      /\ \A u \in work.isolates : Key[u] = Key[t] => phase[u] = "listening"
    [] w = "stop" -> t \in Mains /\ phase[t] = "listening"
    [] w = "detachEmitter" -> /\ t \in Mains /\ phase[t] = "listening"
                              /\ \E u \in Isolates : /\ Key[u] = Key[t] /\ phase[u] = "dead"
                                                     /\ addr[u] \in emitters[Key[t]]
    [] OTHER -> phase[t] \in {"listening", "stopped"} /\ calls[t] < work.calls[t]

Call(t, w) ==
  /\ Defined /\ pc[t] = "idle" /\ MayCall(t, w)
  /\ pc' = [pc EXCEPT ![t] = "id"] /\ op' = [op EXCEPT ![t] = w]
  /\ calls' = [calls EXCEPT ![t] = @ + (IF w \in {"listen", "start", "stop", "detachEmitter"} THEN 0 ELSE 1)]
  /\ last' = [last EXCEPT ![t] = NoCall]
  /\ UNCHANGED <<tableVars, engineVars, portVars, phase, mine, addr, got, clear, historyVars>>

\* The fast path: the id, then the pointer, no lock.
GetId(t) ==
  /\ pc[t] = "id"
  /\ pc' = [pc EXCEPT ![t] = IF cache[Way(mine[t])].id = mine[t] THEN "ptr" ELSE "lock"]
  /\ torn' = IF HalfWritten(Way(mine[t])) THEN torn \cup {t} ELSE torn
  /\ UNCHANGED <<tableVars, engineVars, portVars, dartVars, op, got, clear, last, mistaken, unheard, misused>>

GetPtr(t) ==
  /\ pc[t] = "ptr"
  /\ got' = [got EXCEPT ![t] = cache[Way(mine[t])].ptr] /\ pc' = [pc EXCEPT ![t] = "call"]
  /\ UNCHANGED <<tableVars, engineVars, portVars, dartVars, op, clear, last, historyVars>>

\* A slow path that never stores the pointer.
SlipGetLockedIdOnly(t) ==
  /\ pc[t] = "lock" /\ lock = Nobody
  /\ got' = [got EXCEPT ![t] = instances[mine[t]]] /\ lock' = t
  /\ pc' = [pc EXCEPT ![t] = "publish"]
  /\ UNCHANGED <<work, instances, lastId, cache, holder, engineVars, portVars, dartVars, op, clear, last,
                 historyVars>>

\* The slow path finds the object and stores its pointer, then its id.
GetLocked(t) ==
  LET p == instances[mine[t]]
      w == Way(mine[t])
  IN /\ pc[t] = "lock" /\ lock = Nobody
     /\ got' = [got EXCEPT ![t] = p] /\ lock' = t
     /\ cache' = IF p = Null THEN cache ELSE [cache EXCEPT ![w].ptr = p]
     /\ torn' = torn \cup Overtaken(w)
     /\ pc' = [pc EXCEPT ![t] = "publish"]
     /\ UNCHANGED <<work, instances, lastId, holder, engineVars, portVars, dartVars, op, clear, last, mistaken,
                    unheard, misused>>

GetPublishes(t) ==
  /\ pc[t] = "publish"
  /\ cache' = IF got[t] = Null THEN cache ELSE [cache EXCEPT ![Way(mine[t])].id = mine[t]]
  /\ lock' = Nobody /\ pc' = [pc EXCEPT ![t] = "call"]
  /\ UNCHANGED <<work, instances, lastId, holder, engineVars, portVars, dartVars, op, got, clear, last, historyVars>>

\* The call has its pointer; what it then does, and what the caller is told.
Ends(t, error, result, landed) ==
  /\ last' = [last EXCEPT ![t] = [error |-> error, result |-> result, landed |-> landed]]
  /\ pc' = [pc EXCEPT ![t] = "idle"] /\ op' = [op EXCEPT ![t] = "none"]
  /\ got' = [got EXCEPT ![t] = Null] /\ torn' = torn \ {t}
  /\ mistaken' = IF landed = t THEN mistaken ELSE mistaken \cup {t}

\* registerXStream: whatever was found, nullptr included, gets the port.
Listens(t) ==
  /\ pc[t] = "call" /\ op[t] = "listen"
  /\ heard' = [heard EXCEPT ![t] = @ + 1]
  /\ ports' = [ports EXCEPT ![got[t]] = @ \cup {<<t, heard'[t]>>}]
  /\ phase' = IF heard'[t] = Streams THEN [phase EXCEPT ![t] = "listening"] ELSE phase
  /\ Ends(t, "none", "void", IF got[t] = Null THEN Nobody ELSE holder[got[t]])
  /\ UNCHANGED <<tableVars, engineVars, mine, addr, calls, clear, unheard, misused>>

\* The wrapper found no object: NotInitialized and the wrapper's default.
\* ServerRunner.close swallows it; start throws to bind.
NotInitialized(t) ==
  /\ pc[t] = "call" /\ op[t] # "listen" /\ got[t] = Null
  /\ Ends(t, "NotInitialized", Fail[op[t]], Nobody)
  /\ phase' = IF op[t] = "stop" THEN [phase EXCEPT ![t] = "stopped"] ELSE phase
  /\ UNCHANGED <<tableVars, engineVars, portVars, mine, addr, calls, clear, unheard, misused>>

CallsFreed(t) ==
  /\ pc[t] = "call" /\ op[t] # "listen" /\ got[t] # Null /\ holder[got[t]] = Nobody
  /\ misused' = misused \cup {"call"} /\ mistaken' = mistaken \cup {t}
  /\ UNCHANGED <<tableVars, engineVars, portVars, dartVars, callVars, torn, unheard>>

\* A blob the object cannot decode.
Refuses(t) ==
  /\ pc[t] = "call" /\ op[t] # "listen" /\ got[t] # Null /\ holder[got[t]] # Nobody
  /\ Bad[op[t]] # "takes none"
  /\ Ends(t, IF Bad[op[t]] = "throws" THEN "CppException" ELSE "none",
          IF Bad[op[t]] = "status" THEN "status" ELSE Fail[op[t]], holder[got[t]])
  /\ UNCHANGED <<tableVars, engineVars, portVars, dartVars, clear, unheard, misused>>

\* The engine of the object called does it; stop(), of one engine or of all
\* (resetNative), has joined the loops.
Does(t) ==
  LET k == Key[holder[got[t]]]
  IN /\ pc[t] = "call" /\ op[t] # "listen" /\ got[t] # Null /\ holder[got[t]] # Nobody
     /\ op[t] = "stop" => emitting[k] = Null
     /\ op[t] = "resetNative" => \A j \in Keys : emitting[j] = Null
     /\ Ends(t, "none", "value", holder[got[t]])
     /\ running' = CASE op[t] = "start" -> [running EXCEPT ![k] = TRUE]
                     [] op[t] = "stop" -> [running EXCEPT ![k] = FALSE]
                     [] op[t] = "resetNative" -> [j \in Keys |-> FALSE]
                     [] OTHER -> running
     /\ phase' = IF op[t] = "stop" THEN [phase EXCEPT ![t] = "stopped"] ELSE phase
     /\ IF op[t] = "detachEmitter"
          THEN \E u \in Isolates : /\ Key[u] = Key[t] /\ phase[u] = "dead"
                                   /\ emitters' = [emitters EXCEPT ![k] = @ \ {addr[u]}]
          ELSE UNCHANGED emitters
     /\ UNCHANGED <<tableVars, emitting, portVars, mine, addr, calls, clear, unheard, misused>>

\* ServerRunner.close cancels its streams after stop(); a helper is told to
\* close once its main's engine is stopped.  Release names only the port.
Cancels(t) ==
  /\ Defined /\ pc[t] = "idle"
  /\ \/ phase[t] = "stopped"
     \/ /\ t \notin Mains /\ phase[t] = "listening"
        /\ \E m \in Mains : Key[m] = Key[t] /\ phase[m] \in {"cancelled", "gone"}
  /\ ports' = [a \in DOMAIN ports |-> {p \in ports[a] : p[1] # t}]
  /\ phase' = [phase EXCEPT ![t] = "cancelled"]
  /\ UNCHANGED <<tableVars, engineVars, heard, mine, addr, calls, callVars, historyVars>>

\* A helper isolate dies: nothing of its native side is released.
Dies(t) ==
  /\ Defined /\ t \notin Mains /\ phase[t] = "listening" /\ pc[t] = "idle"
  /\ phase' = [phase EXCEPT ![t] = "dead"]
  /\ UNCHANGED <<tableVars, engineVars, portVars, mine, addr, calls, callVars, historyVars>>

(***************************************************************************)
(* A loop picks a sink under emitterMutex_ and emits to it without         *)
(***************************************************************************)
EmitPicks(k) ==
  /\ Defined /\ running[k] /\ emitting[k] = Null /\ emitters[k] # {}
  /\ \E a \in emitters[k] : emitting' = [emitting EXCEPT ![k] = a]
  /\ UNCHANGED <<tableVars, emitters, running, portVars, dartVars, callVars, historyVars>>

Emits(k) ==
  LET a == emitting[k]
  IN /\ Defined /\ a # Null
     /\ emitting' = [emitting EXCEPT ![k] = Null]
     /\ IF holder[a] = Nobody
          THEN misused' = misused \cup {"sink"} /\ UNCHANGED unheard
          ELSE /\ UNCHANGED misused
               /\ unheard' = IF \E n \in 1 .. Streams : \A p \in ports[a] : p[2] # n THEN unheard \cup {k} ELSE unheard
     /\ UNCHANGED <<tableVars, emitters, running, portVars, dartVars, callVars, torn, mistaken>>

IsolateNext(t) ==
  \/ CreateMakes(t) \/ CreateInserts(t) \/ DestroyErases(t) \/ Invalidates(t) \/ DestroyReturns(t)
  \/ \E w \in Exercised \cup {"listen", "start", "stop", "detachEmitter"} : Call(t, w)
  \/ GetId(t) \/ GetPtr(t) \/ GetLocked(t) \/ GetPublishes(t)
  \/ Listens(t) \/ NotInitialized(t) \/ CallsFreed(t) \/ Refuses(t) \/ Does(t)
  \/ Cancels(t) \/ Dies(t)
BridgeNext == \/ \E t \in Isolates : IsolateNext(t)
              \/ \E k \in Keys : EmitPicks(k) \/ Emits(k)
BridgeSpec == BridgeInit /\ [][BridgeNext]_bridgeVars

(***************************************************************************)
(* Properties                                                              *)
(***************************************************************************)
\* A lookup gives the caller the object its id stands for in the table,
\* whatever the other isolates create, look up and destroy, unless its way
\* of the cache was being written while it read it (_nitro_get_instance).
OwnUnlessTorn ==
  \A t \in Isolates : pc[t] = "call" /\ t \notin torn => got[t] = instances[mine[t]]

\* As long as no lookup was torn, the sink a loop emits to is the live object
\* of an isolate of that very server: the destructor unbinds it, and the
\* server is stopped, its loops joined, before the object goes away
\* (~HybridNitroServerImpl, ServerRunner.close).
SinkOutlivesEmit ==
  mistaken = {} =>
    /\ misused = {}
    /\ \A k \in Keys : \A a \in emitters[k] \cup ({emitting[k]} \ {Null}) :
          holder[a] # Nobody /\ Key[holder[a]] = k

\* As long as no lookup was torn, every event has a subscriber, and the port
\* under an object is its own isolate's, so nobody hears another instance:
\* isolates listen before start() and cancel after stop() (_NitroStreamPorts).
HeardByItsOwn ==
  mistaken = {} => /\ unheard = {}
                   /\ \A a \in Addresses : \A p \in ports[a] : p[1] = holder[a]

\* A subscriber on one instance never receives another instance's events,
\* as the comment on _NitroStreamPorts promises.
OwnEvents == \A a \in Addresses : \A p \in ports[a] : p[1] = holder[a]

\* Streams and the objects behind them stay together: an event is emitted by
\* an object that lives and heard by the isolate that listens to that object.
StreamsOwned == BridgeTypeOK /\ HeardByItsOwn /\ SinkOutlivesEmit
=============================================================================
