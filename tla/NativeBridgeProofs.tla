------------------------ MODULE NativeBridgeProofs ------------------------
(***************************************************************************)
(* The bridge's lookups and streams, proved.                               *)
(*                                                                         *)
(* Inv ties the table, the cache and the lookups together: every way of    *)
(* the cache has the pointer its id stands for, except while its two       *)
(* halves are written or an erased object waits to be cleared from it, and *)
(* only the holder of the lock writes.  OwnUnlessTorn follows.             *)
(*                                                                         *)
(* StreamInv adds the engines: a sink is bound exactly while its object    *)
(* lives, and a server runs only when each of its isolates listens to      *)
(* every stream, on its own object.  StreamsOwned follows.                 *)
(***************************************************************************)
EXTENDS NativeBridge, FiniteSetTheorems, TLAPS

\* The types, group by group.
TableTypes ==
  /\ instances \in [Ids -> Addresses \cup {Null}] /\ lastId \in Ids
  /\ lock \in Isolates \cup {Nobody}
  /\ cache \in [0 .. Ways - 1 -> [id : Ids \cup {-1}, ptr : Addresses \cup {Null}]]
  /\ holder \in [Addresses -> Isolates \cup {Nobody}]
EngineTypes ==
  /\ emitters \in [Keys -> SUBSET Addresses]
  /\ running \in [Keys -> BOOLEAN] /\ emitting \in [Keys -> Addresses \cup {Null}]
PortTypes ==
  /\ ports \in [Addresses \cup {Null} -> SUBSET (Isolates \X (1 .. Streams))]
  /\ heard \in [Isolates -> 0 .. Streams]
DartTypes ==
  /\ phase \in [Isolates -> {"new", "created", "listening", "stopped", "cancelled", "gone", "dead"}]
  /\ mine \in [Isolates -> Ids \cup {0}] /\ addr \in [Isolates -> Addresses \cup {Null}]
  /\ calls \in [Isolates -> Nat]
StepTypes ==
  /\ pc \in [Isolates -> {"idle", "insert", "id", "ptr", "lock", "publish", "call", "clear"}]
  /\ op \in [Isolates -> Wrappers \cup {"listen", "none"}] /\ got \in [Isolates -> Addresses \cup {Null}]
  /\ clear \in [Isolates -> 0 .. 2 * Ways]
  /\ last = [t \in Isolates |-> last[t]] /\ \A t \in Isolates : last[t].landed \in Isolates \cup {Nobody}
PastTypes == torn \subseteq Isolates /\ mistaken \subseteq Isolates /\ unheard \subseteq Keys
Types == TableTypes /\ EngineTypes /\ PortTypes /\ DartTypes /\ StepTypes /\ PastTypes

Calling(t) == pc[t] \in {"id", "ptr", "lock", "publish", "call"}

\* An isolate has its id, and nobody else's, once its object is in the table.
Ahead == {t \in Isolates : mine[t] # 0}
Named ==
  /\ \A t \in Isolates : mine[t] = 0 <=> phase[t] = "new" \/ pc[t] = "insert"
  /\ \A t \in Isolates : mine[t] <= lastId
  /\ \A t, u \in Isolates : t # u /\ mine[t] = mine[u] => mine[t] = 0
  /\ lastId = 1 + Cardinality(Ahead)

\* Where an isolate is in its life and in a call go together, and its object is
\* in the table from create_instance to destroy_instance.
Steps(t) ==
  /\ phase[t] \in {"new", "dead", "cancelled"} => pc[t] = "idle"
  /\ phase[t] = "gone" => pc[t] \in {"idle", "clear"}
  /\ pc[t] = "clear" => phase[t] = "gone"
  /\ pc[t] = "insert" => phase[t] = "created"
  /\ Calling(t) /\ op[t] = "listen" => phase[t] = "created"
  /\ Calling(t) /\ op[t] # "listen" => phase[t] \in {"listening", "stopped"}
  /\ Calling(t) /\ op[t] \in {"start", "stop"} => t \in Mains /\ phase[t] = "listening"
Hears(t) ==
  /\ phase[t] \in {"new", "created"} => heard[t] < Streams
  /\ phase[t] \in {"listening", "dead"} => heard[t] = Streams
  /\ phase[t] # "new" => t \in work.isolates
Lives(t) ==
  /\ phase[t] \notin {"new", "gone"} => addr[t] # Null /\ holder[addr[t]] = t
  /\ phase[t] \notin {"new", "gone"} /\ pc[t] # "insert" => instances[mine[t]] = addr[t]
Living ==
  /\ \A t \in Isolates : Lives(t) /\ Steps(t) /\ Hears(t)
  /\ \A a \in Addresses : holder[a] # Nobody => addr[holder[a]] = a /\ phase[holder[a]] \notin {"new", "gone"}

Locked == \A t \in Isolates : lock = t <=> pc[t] \in {"publish", "clear"}

\* A way of the cache has the object its id stands for, unless its two halves
\* are being written, or the object is gone and the way not yet cleared.
Stale(w) == \E t \in Isolates : pc[t] = "clear" /\ mine[t] = cache[w].id /\ 2 * Ways - clear[t] <= 2 * w
Cached(w) ==
  cache[w].id # -1 => /\ cache[w].id <= lastId
                      /\ cache[w].ptr = instances[cache[w].id] \/ HalfWritten(w) \/ Stale(w)
Clearing(t) ==
  pc[t] = "clear" => \A w \in 0 .. Ways - 1 : 2 * Ways - clear[t] = 2 * w + 1 => cache[w].id = -1
\* What a lookup has in hand.
Reading(t) ==
  /\ pc[t] = "ptr" /\ t \notin torn => cache[Way(mine[t])].ptr = instances[mine[t]]
  /\ pc[t] = "publish" => got[t] = instances[mine[t]] /\ cache[Way(mine[t])].ptr = got[t]
  /\ pc[t] = "call" /\ t \notin torn => got[t] = instances[mine[t]]
Coherent ==
  /\ \A w \in 0 .. Ways - 1 : Cached(w)
  /\ \A t \in Isolates : Clearing(t) /\ Reading(t)

Inv == Types /\ Named /\ Living /\ Locked /\ Coherent

\* A server runs once every isolate of it listens.
Ready(k) == \A u \in Isolates : u \in work.isolates /\ Key[u] = k => phase[u] \in {"listening", "dead"}
\* A start finds its server ready; what an isolate has registered is there.
Calls(t) ==
  /\ Calling(t) /\ op[t] = "start" => Ready(Key[t])
  /\ phase[t] = "new" => heard[t] = 0
  /\ phase[t] \in {"created", "listening", "dead"} => \A n \in 1 .. heard[t] : <<t, n>> \in ports[addr[t]]
Loops(k) ==
  /\ running[k] => Ready(k)
  /\ emitting[k] # Null => holder[emitting[k]] # Nobody /\ Key[holder[emitting[k]]] = k /\ running[k]
Bound == \A k \in Keys : \A a \in emitters[k] : holder[a] # Nobody /\ Key[holder[a]] = k
Served ==
  /\ misused = {} /\ unheard = {}
  /\ \A t \in Isolates : Calls(t)
  /\ \A k \in Keys : Loops(k)
  /\ \A a \in Addresses : \A p \in ports[a] : p[1] = holder[a]
StreamInv == Inv /\ Bound /\ (mistaken = {} => Served)

\* The ids there are, and the ways they go to.
LEMMA IdsAre == Ids = 1 .. Cardinality(Isolates) + 1 /\ Cardinality(Isolates) \in Nat /\ Ids \subseteq Nat
<1>1. Cardinality(Isolates) \in Nat BY Zenon, BridgeAssumption, FS_CardinalityType
<1> QED BY <1>1 DEF Ids

\* The way an id goes to is one of the cache's.
LEMMA WayIs == ASSUME NEW i \in Ids \cup {0} PROVE Way(i) \in 0 .. Ways - 1
<1>1. i \in Nat BY IdsAre
<1>2. Ways \in Nat \ {0} BY Zenon, BridgeAssumption
<1> QED BY <1>1, <1>2 DEF Way

\* A group is kept by a step that leaves its variables alone.
LEMMA TypesKept ==
  ASSUME Types
  PROVE /\ UNCHANGED tableVars => TableTypes'
        /\ UNCHANGED engineVars => EngineTypes'
        /\ UNCHANGED portVars => PortTypes'
        /\ UNCHANGED dartVars => DartTypes'
        /\ UNCHANGED callVars => StepTypes'
        /\ UNCHANGED historyVars => PastTypes'
BY ZenonT(60) DEF Types, TableTypes, EngineTypes, PortTypes, DartTypes, StepTypes, PastTypes, tableVars, engineVars,
   portVars, dartVars, callVars, historyVars

\* What a call leaves when it ends.
LEMMA EndsTypes ==
  ASSUME Types, NEW t \in Isolates, NEW e, NEW r, NEW landed \in Isolates \cup {Nobody},
         Ends(t, e, r, landed), UNCHANGED clear
  PROVE StepTypes' /\ torn' \subseteq Isolates /\ mistaken' \subseteq Isolates
<1>1. /\ pc' \in [Isolates -> {"idle", "insert", "id", "ptr", "lock", "publish", "call", "clear"}]
      /\ op' \in [Isolates -> Wrappers \cup {"listen", "none"}]
      /\ got' \in [Isolates -> Addresses \cup {Null}]
  BY Zenon DEF Ends, Types, StepTypes
<1>2. torn' \subseteq Isolates /\ mistaken' \subseteq Isolates BY Zenon DEF Ends, Types, PastTypes
<1>3. last' = [u \in Isolates |-> last'[u]] /\ \A u \in Isolates : last'[u].landed \in Isolates \cup {Nobody}
  <2>1. last' = [last EXCEPT ![t] = [error |-> e, result |-> r, landed |-> landed]] BY Zenon DEF Ends
  <2>2. last = [u \in Isolates |-> last[u]] BY Zenon DEF Types, StepTypes
  <2>3. last'[t].landed = landed /\ \A u \in Isolates \ {t} : last'[u] = last[u] BY Zenon, <2>1, <2>2
  <2>4. last' = [u \in Isolates |-> last'[u]] BY Zenon, <2>1, <2>2
  <2> QED BY Zenon, <2>3, <2>4 DEF Types, StepTypes
<1> QED BY Zenon, <1>1, <1>2, <1>3 DEF Types, StepTypes

\* The types under make_shared.
LEMMA CreateMakesTypes == ASSUME Types, NEW t \in Isolates, CreateMakes(t) PROVE Types'
<1>1. PICK a \in Addresses :
        /\ addr' = [addr EXCEPT ![t] = a] /\ holder' = [holder EXCEPT ![a] = t]
        /\ emitters' = [emitters EXCEPT ![Key[t]] = @ \cup {a}]
        /\ phase' = [phase EXCEPT ![t] = "created"] /\ pc' = [pc EXCEPT ![t] = "insert"]
  BY Zenon DEF CreateMakes
<1>2. TableTypes' BY Zenon, <1>1 DEF CreateMakes, Types, TableTypes
<1>3. EngineTypes' BY Zenon, <1>1, BridgeAssumption DEF CreateMakes, Types, EngineTypes
<1>4. DartTypes' BY Zenon, <1>1 DEF CreateMakes, Types, DartTypes
<1>5. StepTypes' BY Zenon, <1>1 DEF CreateMakes, Types, StepTypes
<1> QED BY Zenon, <1>2, <1>3, <1>4, <1>5, TypesKept DEF CreateMakes, Types

\* The types under the erasure; the isolate has an id.
LEMMA DestroyErasesTypes == ASSUME Types, NEW t \in Isolates, mine[t] # 0, DestroyErases(t) PROVE Types'
<1>1. mine[t] \in Ids /\ instances[mine[t]] \in Addresses \cup {Null} BY Zenon DEF Types, TableTypes, DartTypes
<1>2. TableTypes' BY Zenon, <1>1 DEF DestroyErases, Types, TableTypes
<1>3. EngineTypes' BY Zenon, <1>1, BridgeAssumption DEF DestroyErases, Types, EngineTypes
<1>4. PortTypes' BY Zenon, <1>1 DEF DestroyErases, Types, PortTypes
<1>5. DartTypes' BY Zenon DEF DestroyErases, Types, DartTypes
<1>6. StepTypes' BY BridgeAssumption DEF DestroyErases, Types, StepTypes
<1> QED BY Zenon, <1>2, <1>3, <1>4, <1>5, <1>6, TypesKept DEF DestroyErases, Types

\* The types while the cache is cleared: the way cleared is one of the cache's.
LEMMA InvalidatesTypes == ASSUME Types, NEW t \in Isolates, Invalidates(t) PROVE Types'
<1> DEFINE n == 2 * Ways - clear[t]
           w == n \div 2
<1>1. Ways \in Nat \ {0} /\ clear[t] \in 1 .. 2 * Ways BY BridgeAssumption DEF Types, StepTypes, Invalidates
<1>2. w \in 0 .. Ways - 1 BY <1>1
<1> HIDE DEF w
<1>3. \/ cache' = [cache EXCEPT ![w].id = -1]
      \/ cache' = [cache EXCEPT ![w].ptr = Null]
  BY Zenon DEF Invalidates, w
<1>4. TableTypes' BY <1>2, <1>3 DEF Invalidates, Types, TableTypes
<1>5. StepTypes' BY <1>1 DEF Invalidates, Types, StepTypes
<1>6. PastTypes' BY Zenon DEF Invalidates, Types, PastTypes, Overtaken
<1> QED BY Zenon, <1>4, <1>5, <1>6, TypesKept DEF Invalidates, Types

\* The types when a call begins.
LEMMA CallTypes ==
  ASSUME Types, NEW t \in Isolates, NEW w \in Exercised \cup {"listen", "start", "stop", "detachEmitter"}, Call(t, w)
  PROVE Types'
<1>1. w \in Wrappers \cup {"listen", "none"} BY Zenon, BridgeAssumption
<1>2. NoCall.landed = Nobody BY Zenon DEF NoCall
<1>3. StepTypes' BY Zenon, <1>1, <1>2 DEF Call, Types, StepTypes
<1>4. DartTypes' BY DEF Call, Types, DartTypes
<1> QED BY Zenon, <1>3, <1>4, TypesKept DEF Call, Types

\* The types under the steps of a lookup.
LEMMA GetTypes ==
  ASSUME Types, NEW t \in Isolates, mine[t] # 0, GetId(t) \/ GetPtr(t) \/ GetLocked(t) \/ GetPublishes(t) PROVE Types'
<1>1. mine[t] \in Ids /\ instances[mine[t]] \in Addresses \cup {Null} BY Zenon DEF Types, TableTypes, DartTypes
<1>2. Way(mine[t]) \in 0 .. Ways - 1 BY Zenon, <1>1, WayIs
<1>3. cache[Way(mine[t])].ptr \in Addresses \cup {Null} BY Zenon, <1>2 DEF Types, TableTypes
<1>4. CASE GetId(t)
  <2>1. StepTypes' BY Zenon, <1>4 DEF GetId, Types, StepTypes
  <2>2. PastTypes' BY Zenon, <1>4 DEF GetId, Types, PastTypes
  <2> QED BY Zenon, <1>4, <2>1, <2>2, TypesKept DEF GetId, Types
<1>5. CASE GetPtr(t)
  <2>1. StepTypes' BY Zenon, <1>5, <1>3 DEF GetPtr, Types, StepTypes
  <2> QED BY Zenon, <1>5, <2>1, TypesKept DEF GetPtr, Types
<1>6. CASE GetLocked(t)
  <2>1. StepTypes' BY Zenon, <1>6, <1>1 DEF GetLocked, Types, StepTypes
  <2>2. PastTypes' BY Zenon, <1>6 DEF GetLocked, Types, PastTypes, Overtaken
  <2>3. TableTypes' BY Zenon, <1>6, <1>1, <1>2 DEF GetLocked, Types, TableTypes
  <2> QED BY Zenon, <1>6, <2>1, <2>2, <2>3, TypesKept DEF GetLocked, Types
<1>7. CASE GetPublishes(t)
  <2>1. StepTypes' BY Zenon, <1>7, <1>1 DEF GetPublishes, Types, StepTypes
  <2>2. TableTypes' BY <1>7, <1>1, <1>2 DEF GetPublishes, Types, TableTypes
  <2> QED BY Zenon, <1>7, <2>1, <2>2, TypesKept DEF GetPublishes, Types
<1> QED BY Zenon, <1>4, <1>5, <1>6, <1>7

\* The types under the insertion: there is an id left, as every isolate takes one.
LEMMA CreateInsertsTypes ==
  ASSUME Types, Named, NEW t \in Isolates, CreateInserts(t) PROVE Types' /\ lastId + 1 \in Ids
<1>1. mine[t] = 0 BY Zenon DEF Named, CreateInserts
<1>2. IsFiniteSet(Isolates) /\ IsFiniteSet(Isolates \ {t}) /\ Cardinality(Isolates \ {t}) = Cardinality(Isolates) - 1
  BY Zenon, BridgeAssumption, FS_RemoveElement
<1>3. Ahead \in SUBSET (Isolates \ {t}) BY Zenon, <1>1 DEF Ahead
<1>4. IsFiniteSet(Ahead) /\ Cardinality(Ahead) <= Cardinality(Isolates \ {t}) BY Zenon, <1>2, <1>3, FS_Subset
<1>5. Cardinality(Ahead) \in Nat BY Zenon, <1>4, FS_CardinalityType
<1>6. lastId + 1 \in Ids BY <1>2, <1>4, <1>5, IdsAre DEF Named
<1>7. addr[t] \in Addresses \cup {Null} BY Zenon DEF Types, DartTypes
<1>8. TableTypes' BY Zenon, <1>6, <1>7 DEF CreateInserts, Types, TableTypes
<1>9. DartTypes' BY Zenon, <1>6 DEF CreateInserts, Types, DartTypes
<1>10. StepTypes' BY Zenon DEF CreateInserts, Types, StepTypes
<1> QED BY Zenon, <1>6, <1>8, <1>9, <1>10, TypesKept DEF CreateInserts, Types

\* The types when destroy_instance returns.
LEMMA DestroyReturnsTypes == ASSUME Types, NEW t \in Isolates, DestroyReturns(t) PROVE Types'
<1>1. TableTypes' BY Zenon DEF DestroyReturns, Types, TableTypes
<1>2. StepTypes' BY Zenon DEF DestroyReturns, Types, StepTypes
<1> QED BY Zenon, <1>1, <1>2, TypesKept DEF DestroyReturns, Types

\* The types under a registration: an isolate registers no stream too many.
LEMMA ListensTypes == ASSUME Types, Living, NEW t \in Isolates, Listens(t) PROVE Types'
<1>1. phase[t] = "created" /\ heard[t] < Streams
  <2>1. Steps(t) /\ Hears(t) /\ pc[t] = "call" /\ op[t] = "listen" BY Zenon DEF Living, Listens
  <2>2. Calling(t) BY Zenon, <2>1 DEF Calling
  <2> QED BY Zenon, <2>1, <2>2 DEF Steps, Hears
<1>2. heard' = [heard EXCEPT ![t] = @ + 1] /\ heard[t] \in 0 .. Streams /\ Streams \in Nat
  BY Zenon, BridgeAssumption DEF Listens, Types, PortTypes
<1>3. heard' \in [Isolates -> 0 .. Streams] /\ heard'[t] \in 1 .. Streams BY <1>1, <1>2 DEF Types, PortTypes
<1>4. got[t] \in Addresses \cup {Null} BY Zenon DEF Types, StepTypes
<1>5. PortTypes' BY <1>3, <1>4 DEF Listens, Types, PortTypes
<1>6. DartTypes' BY Zenon DEF Listens, Types, DartTypes
<1>7. (IF got[t] = Null THEN Nobody ELSE holder[got[t]]) \in Isolates \cup {Nobody}
  BY Zenon, <1>4 DEF Types, TableTypes
<1>8. StepTypes' /\ torn' \subseteq Isolates /\ mistaken' \subseteq Isolates
  BY Zenon, <1>7, EndsTypes DEF Listens
<1>9. PastTypes' BY Zenon, <1>8 DEF Listens, Types, PastTypes
<1> QED BY Zenon, <1>5, <1>6, <1>8, <1>9, TypesKept DEF Listens, Types

\* The types when a call ends without effect.
LEMMA AnsweredTypes ==
  ASSUME Types, NEW t \in Isolates, NotInitialized(t) \/ CallsFreed(t) \/ Refuses(t) PROVE Types'
<1>1. got[t] \in Addresses \cup {Null} /\ Nobody \in Isolates \cup {Nobody} BY Zenon DEF Types, StepTypes
<1>2. got[t] # Null => holder[got[t]] \in Isolates \cup {Nobody} BY Zenon, <1>1 DEF Types, TableTypes
<1>3. CASE NotInitialized(t)
  <2>1. StepTypes' /\ torn' \subseteq Isolates /\ mistaken' \subseteq Isolates
    BY Zenon, <1>1, <1>3, EndsTypes DEF NotInitialized
  <2>2. PastTypes' BY Zenon, <1>3, <2>1 DEF NotInitialized, Types, PastTypes
  <2>3. DartTypes' BY Zenon, <1>3 DEF NotInitialized, Types, DartTypes
  <2> QED BY Zenon, <1>3, <2>1, <2>2, <2>3, TypesKept DEF NotInitialized, Types
<1>4. CASE CallsFreed(t)
  <2>1. PastTypes' BY Zenon, <1>4 DEF CallsFreed, Types, PastTypes
  <2> QED BY Zenon, <1>4, <2>1, TypesKept DEF CallsFreed, Types
<1>5. CASE Refuses(t)
  <2>1. StepTypes' /\ torn' \subseteq Isolates /\ mistaken' \subseteq Isolates
    BY Zenon, <1>2, <1>5, EndsTypes DEF Refuses
  <2>2. PastTypes' BY Zenon, <1>5, <2>1 DEF Refuses, Types, PastTypes
  <2> QED BY Zenon, <1>5, <2>1, <2>2, TypesKept DEF Refuses, Types
<1> QED BY Zenon, <1>3, <1>4, <1>5

\* The types when the engine does what is asked.
LEMMA DoesTypes == ASSUME Types, NEW t \in Isolates, Does(t) PROVE Types'
<1> DEFINE k == Key[holder[got[t]]]
<1>1. holder[got[t]] \in Isolates BY Zenon DEF Does, Types, StepTypes, TableTypes
<1>2. k \in Keys BY Zenon, <1>1, BridgeAssumption
<1>3. StepTypes' /\ torn' \subseteq Isolates /\ mistaken' \subseteq Isolates BY Zenon, <1>1, EndsTypes DEF Does
<1>4. PastTypes' BY Zenon, <1>3 DEF Does, Types, PastTypes
<1>5. DartTypes' BY Zenon DEF Does, Types, DartTypes
<1>6. running' \in [Keys -> BOOLEAN]
  <2>1. \/ running' = [running EXCEPT ![k] = TRUE] \/ running' = [running EXCEPT ![k] = FALSE]
        \/ running' = [j \in Keys |-> FALSE] \/ running' = running
    BY Zenon DEF Does
  <2>2. running \in [Keys -> BOOLEAN] BY Zenon DEF Types, EngineTypes
  <2> HIDE DEF k
  <2> QED BY Zenon, <1>2, <2>1, <2>2
<1>7. emitters' \in [Keys -> SUBSET Addresses]
  <2>1. emitters' = emitters \/ \E a : emitters' = [emitters EXCEPT ![k] = @ \ {a}] BY Zenon DEF Does
  <2> HIDE DEF k
  <2> QED BY Zenon, <1>2, <2>1 DEF Types, EngineTypes
<1>8. EngineTypes' BY Zenon, <1>6, <1>7 DEF Does, Types, EngineTypes
<1> QED BY Zenon, <1>3, <1>4, <1>5, <1>8, TypesKept DEF Does, Types

\* The types when an isolate cancels or dies.
LEMMA LeavesTypes == ASSUME Types, NEW t \in Isolates, Cancels(t) \/ Dies(t) PROVE Types'
<1>1. DartTypes' BY Zenon DEF Cancels, Dies, Types, DartTypes
<1>2. CASE Cancels(t)
  <2>1. PortTypes' BY Zenon, <1>2 DEF Cancels, Types, PortTypes
  <2> QED BY Zenon, <1>1, <1>2, <2>1, TypesKept DEF Cancels, Types
<1>3. CASE Dies(t) BY Zenon, <1>1, <1>3, TypesKept DEF Dies, Types
<1> QED BY Zenon, <1>2, <1>3

\* The types under a loop's emission.
LEMMA EmitTypes == ASSUME Types, NEW k \in Keys, EmitPicks(k) \/ Emits(k) PROVE Types'
<1>1. EngineTypes' BY Zenon DEF EmitPicks, Emits, Types, EngineTypes
<1>2. PastTypes' BY Zenon DEF EmitPicks, Emits, Types, PastTypes, historyVars
<1> QED BY Zenon, <1>1, <1>2, TypesKept DEF EmitPicks, Emits, Types

-----------------------------------------------------------------------------
\* What a step does to where the isolates are.
Moves(t, s) == pc'[t] = s /\ \A u \in Isolates \ {t} : pc'[u] = pc[u]

\* An assignment to it.
LEMMA MovesBy == ASSUME Types, NEW t \in Isolates, NEW s, pc' = [pc EXCEPT ![t] = s] PROVE Moves(t, s)
BY Zenon DEF Types, StepTypes, Moves

\* Ids: nobody is created.
LEMMA NamedKept ==
  ASSUME Named, UNCHANGED <<mine, lastId>>,
         \A u \in Isolates : phase'[u] = "new" \/ pc'[u] = "insert" <=> phase[u] = "new" \/ pc[u] = "insert"
  PROVE Named'
BY Zenon DEF Named, Ahead

\* Objects: none comes or goes.
LEMMA LivingKept ==
  ASSUME Types, Living, NEW t \in Isolates, UNCHANGED <<addr, holder, instances, mine, work>>,
         \A u \in Isolates \ {t} : /\ pc'[u] = pc[u] /\ phase'[u] = phase[u]
                                   /\ op'[u] = op[u] /\ heard'[u] = heard[u],
         Steps(t)', Hears(t)', phase'[t] \in {"new", "gone"} <=> phase[t] \in {"new", "gone"},
         pc[t] # "insert"
  PROVE Living'
<1>1. ASSUME NEW u \in Isolates \ {t} PROVE Lives(u)' /\ Steps(u)' /\ Hears(u)'
  <2>1. Lives(u) /\ Steps(u) /\ Hears(u) BY Zenon DEF Living
  <2>2. pc'[u] = pc[u] /\ phase'[u] = phase[u] /\ op'[u] = op[u] /\ heard'[u] = heard[u] BY Zenon
  <2>3. Lives(u)' BY Zenon, <2>1, <2>2 DEF Lives
  <2>4. Steps(u)' BY Zenon, <2>1, <2>2 DEF Steps, Calling
  <2>5. Hears(u)' BY Zenon, <2>1, <2>2 DEF Hears
  <2> QED BY Zenon, <2>3, <2>4, <2>5
<1>2. Lives(t)' BY Zenon DEF Living, Lives
<1>3. \A a \in Addresses : holder[a] # Nobody => addr[holder[a]] = a /\ phase'[holder[a]] \notin {"new", "gone"}
  <2> SUFFICES ASSUME NEW a \in Addresses, holder[a] # Nobody
               PROVE addr[holder[a]] = a /\ phase'[holder[a]] \notin {"new", "gone"}
    BY Zenon
  <2>1. addr[holder[a]] = a /\ phase[holder[a]] \notin {"new", "gone"} BY Zenon DEF Living
  <2>2. CASE holder[a] = t BY Zenon, <2>1, <2>2
  <2>3. CASE holder[a] \in Isolates \ {t} BY Zenon, <2>1, <2>3
  <2>4. holder[a] \in Isolates BY Zenon DEF Types, TableTypes
  <2> QED BY Zenon, <2>2, <2>3, <2>4
<1> QED BY Zenon, <1>1, <1>2, <1>3 DEF Living

\* The mutex is neither taken nor let go.
LEMMA LockedKept ==
  ASSUME Locked, UNCHANGED lock,
         \A u \in Isolates : pc'[u] \in {"publish", "clear"} <=> pc[u] \in {"publish", "clear"}
  PROVE Locked'
BY Zenon DEF Locked

\* The cache, and what the lookups of others have in hand.
LEMMA CoherentKept ==
  ASSUME Coherent, NEW t \in Isolates, NEW s, Moves(t, s), s \notin {"publish", "clear"},
         pc[t] \notin {"publish", "clear"}, UNCHANGED <<cache, instances, mine, lastId, clear>>,
         torn \ {t} \subseteq torn', \A u \in Isolates \ {t} : got'[u] = got[u], Reading(t)'
  PROVE Coherent'
<1>1. \A u \in Isolates : /\ pc'[u] = "publish" <=> pc[u] = "publish"
                          /\ pc'[u] = "clear" <=> pc[u] = "clear"
  BY Zenon DEF Moves
<1>2. ASSUME NEW w \in 0 .. Ways - 1 PROVE Cached(w)'
  <2>1. Cached(w) BY Zenon DEF Coherent
  <2>2. HalfWritten(w) => HalfWritten(w)' BY Zenon, <1>1 DEF HalfWritten, Way
  <2>3. Stale(w) => Stale(w)' BY Zenon, <1>1 DEF Stale
  <2> QED BY Zenon, <2>1, <2>2, <2>3 DEF Cached
<1>3. ASSUME NEW u \in Isolates PROVE Clearing(u)' BY Zenon, <1>1 DEF Coherent, Clearing
<1>4. ASSUME NEW u \in Isolates PROVE Reading(u)'
  <2>1. CASE u # t
    <3>1. pc'[u] = pc[u] /\ got'[u] = got[u] /\ (u \notin torn' => u \notin torn) BY Zenon, <2>1 DEF Moves
    <3> QED BY Zenon, <3>1 DEF Coherent, Reading, Way
  <2> QED BY Zenon, <2>1
<1> QED BY Zenon, <1>2, <1>3, <1>4 DEF Coherent

\* A step of one isolate that creates and destroys nothing and leaves the table,
\* the cache and the mutex alone.
LEMMA PlainStep ==
  ASSUME Inv, Types', NEW t \in Isolates, NEW s, Moves(t, s),
         s \notin {"insert", "publish", "clear"}, pc[t] \notin {"insert", "publish", "clear"},
         UNCHANGED <<mine, lastId, addr, holder, instances, work, lock, cache, clear>>,
         \A u \in Isolates \ {t} : /\ phase'[u] = phase[u] /\ op'[u] = op[u]
                                   /\ heard'[u] = heard[u] /\ got'[u] = got[u],
         torn \ {t} \subseteq torn', Reading(t)', Steps(t)', Hears(t)',
         phase[t] \notin {"new", "gone"}, phase'[t] \notin {"new", "gone"}
  PROVE Inv'
<1>1. \A u \in Isolates : /\ phase'[u] = "new" \/ pc'[u] = "insert" <=> phase[u] = "new" \/ pc[u] = "insert"
                          /\ pc'[u] \in {"publish", "clear"} <=> pc[u] \in {"publish", "clear"}
  BY Zenon DEF Moves
<1>2. Named' BY Zenon, <1>1, NamedKept DEF Inv
<1>3. Locked' BY Zenon, <1>1, LockedKept DEF Inv
<1>4. s \notin {"publish", "clear"} /\ pc[t] \notin {"publish", "clear"} /\ pc[t] # "insert" BY Zenon
<1>5. \A u \in Isolates \ {t} : /\ pc'[u] = pc[u] /\ phase'[u] = phase[u]
                                /\ op'[u] = op[u] /\ heard'[u] = heard[u]
  BY Zenon DEF Moves
<1>6. Living' BY Zenon, <1>4, <1>5, LivingKept DEF Inv
<1>7. Coherent' BY Zenon, <1>4, CoherentKept DEF Inv
<1> QED BY Zenon, <1>2, <1>3, <1>6, <1>7 DEF Inv

\* Where an isolate is that makes a call.
LEMMA CallerIs ==
  ASSUME Inv, NEW t \in Isolates, Calling(t)
  PROVE /\ phase[t] \in {"created", "listening", "stopped"} /\ mine[t] \in Ids
        /\ instances[mine[t]] = addr[t] /\ addr[t] \in Addresses /\ holder[addr[t]] = t
        /\ pc[t] \notin {"insert", "clear", "idle"}
<1>1. Lives(t) /\ Steps(t) BY Zenon DEF Inv, Living
<1>2. pc[t] \notin {"insert", "clear", "idle"} BY Zenon DEF Calling
<1>3. phase[t] \in {"created", "listening", "stopped"} BY Zenon, <1>1 DEF Steps
<1>4. phase[t] \notin {"new", "gone"} BY Zenon, <1>3
<1>5. mine[t] # 0 BY Zenon, <1>2, <1>4 DEF Inv, Named
<1>6. mine[t] \in Ids BY Zenon, <1>5 DEF Inv, Types, DartTypes
<1> QED BY Zenon, <1>1, <1>2, <1>3, <1>4, <1>6 DEF Lives, Inv, Types, DartTypes

\* A call begins.
LEMMA CallStep ==
  ASSUME Inv, NEW t \in Isolates, NEW w \in Exercised \cup {"listen", "start", "stop", "detachEmitter"}, Call(t, w)
  PROVE Inv'
<1>1. Types /\ Types' BY Zenon, CallTypes DEF Inv
<1>2. Moves(t, "id") /\ pc[t] = "idle" BY Zenon, <1>1, MovesBy DEF Call
<1>3. UNCHANGED <<mine, lastId, addr, holder, instances, work, lock, cache, clear, phase, heard, got, torn>>
  BY Zenon DEF Call, tableVars, portVars, historyVars
<1>4. op'[t] = w /\ \A u \in Isolates \ {t} : op'[u] = op[u] BY Zenon, <1>1 DEF Call, Types, StepTypes
<1>5. /\ w = "listen" => phase[t] = "created"
      /\ w # "listen" => phase[t] \in {"listening", "stopped"}
      /\ w \in {"start", "stop"} => t \in Mains /\ phase[t] = "listening"
  <2>1. MayCall(t, w) BY Zenon DEF Call
  <2> QED BY Zenon, <2>1 DEF MayCall
<1>6. Steps(t)' BY Zenon, <1>2, <1>3, <1>4, <1>5 DEF Steps, Calling, Moves
<1>7. Hears(t)' BY Zenon, <1>3 DEF Hears, Inv, Living
<1>8. Reading(t)' BY Zenon, <1>2 DEF Moves, Reading
<1>9. /\ "id" \notin {"insert", "publish", "clear"} /\ pc[t] \notin {"insert", "publish", "clear"}
      /\ phase[t] \notin {"new", "gone"} /\ phase'[t] \notin {"new", "gone"}
  BY Zenon, <1>2, <1>3, <1>5
<1> QED BY Zenon, <1>1, <1>2, <1>3, <1>4, <1>6, <1>7, <1>8, <1>9, PlainStep

\* The fast path: a hit on a way that is not being written is the caller's object.
LEMMA GetIdStep == ASSUME Inv, NEW t \in Isolates, GetId(t) PROVE Inv'
<1>1. Calling(t) /\ pc[t] = "id" BY Zenon DEF GetId, Calling
<1>2. /\ phase[t] \in {"created", "listening", "stopped"} /\ mine[t] \in Ids
      /\ instances[mine[t]] = addr[t] /\ pc[t] \notin {"insert", "clear", "idle"}
  BY Zenon, <1>1, CallerIs
<1>3. mine[t] # 0 /\ mine[t] # -1 BY <1>2, IdsAre
<1>4. Types /\ Types' BY Zenon, <1>3, GetTypes DEF Inv
<1> DEFINE w == Way(mine[t])
<1>5. UNCHANGED <<mine, lastId, addr, holder, instances, work, lock, cache, clear, phase, heard, got, op>>
  BY Zenon DEF GetId, tableVars, portVars, dartVars
<1>6. PICK s \in {"ptr", "lock"} : pc' = [pc EXCEPT ![t] = s] /\ (s = "ptr" => cache[w].id = mine[t])
  BY Zenon DEF GetId
<1>7. Moves(t, s) BY Zenon, <1>4, <1>6, MovesBy
<1>8. w \in 0 .. Ways - 1 BY Zenon, <1>2, WayIs
<1>9. torn' = IF HalfWritten(w) THEN torn \cup {t} ELSE torn BY Zenon DEF GetId
<1>10. Reading(t)'
  <2>1. CASE s = "lock" BY Zenon, <1>7, <2>1 DEF Moves, Reading
  <2>2. CASE s = "ptr" /\ t \notin torn'
    <3>1. cache[w].id = mine[t] BY Zenon, <1>6, <2>2
    <3>2. Cached(w) BY Zenon, <1>8 DEF Inv, Coherent
    <3>3. ~HalfWritten(w) BY Zenon, <1>9, <2>2
    <3>4. ~Stale(w)
      <4> SUFFICES ASSUME NEW u \in Isolates, pc[u] = "clear", mine[u] = cache[w].id PROVE FALSE
        BY Zenon DEF Stale
      <4>1. u # t BY Zenon, <1>1
      <4> QED BY Zenon, <3>1, <4>1, <1>3 DEF Inv, Named
    <3>5. cache[w].ptr = instances[mine[t]] BY Zenon, <3>1, <3>2, <3>3, <3>4, <1>3 DEF Cached
    <3>6. cache'[Way(mine'[t])].ptr = instances'[mine'[t]] BY Zenon, <1>5, <3>5
    <3> QED BY Zenon, <1>7, <2>2, <3>6 DEF Moves, Reading
  <2>3. CASE s = "ptr" /\ t \in torn' BY Zenon, <1>7, <2>3 DEF Moves, Reading
  <2> QED BY Zenon, <2>1, <2>2, <2>3
<1>11. Steps(t)'
  <2>1. Steps(t) BY Zenon DEF Inv, Living
  <2> QED BY Zenon, <2>1, <1>1, <1>5, <1>7 DEF Steps, Moves, Calling
<1>12. Hears(t)' BY Zenon, <1>5 DEF Hears, Inv, Living
<1>13. /\ s \notin {"insert", "publish", "clear"} /\ pc[t] \notin {"insert", "publish", "clear"}
       /\ phase[t] \notin {"new", "gone"} /\ phase'[t] \notin {"new", "gone"} /\ torn \ {t} \subseteq torn'
  BY Zenon, <1>1, <1>2, <1>5, <1>9
<1> QED BY Zenon, <1>4, <1>5, <1>7, <1>10, <1>11, <1>12, <1>13, PlainStep

\* The pointer it then reads.
LEMMA GetPtrStep == ASSUME Inv, NEW t \in Isolates, GetPtr(t) PROVE Inv'
<1>1. Calling(t) /\ pc[t] = "ptr" BY Zenon DEF GetPtr, Calling
<1>2. /\ phase[t] \in {"created", "listening", "stopped"} /\ mine[t] \in Ids
      /\ pc[t] \notin {"insert", "clear", "idle"}
  BY Zenon, <1>1, CallerIs
<1>3. mine[t] # 0 BY <1>2, IdsAre
<1>4. Types /\ Types' BY Zenon, <1>3, GetTypes DEF Inv
<1>5. UNCHANGED <<mine, lastId, addr, holder, instances, work, lock, cache, clear, phase, heard, op, torn>>
  BY Zenon DEF GetPtr, tableVars, portVars, dartVars, historyVars
<1>6. Moves(t, "call") BY Zenon, <1>4, MovesBy DEF GetPtr
<1>7. got'[t] = cache[Way(mine[t])].ptr /\ \A u \in Isolates \ {t} : got'[u] = got[u]
  BY Zenon, <1>4 DEF GetPtr, Types, StepTypes
<1>8. Reading(t)'
  <2>1. t \notin torn => cache[Way(mine[t])].ptr = instances[mine[t]] BY Zenon, <1>1 DEF Inv, Coherent, Reading
  <2>2. t \notin torn' => got'[t] = instances'[mine'[t]] BY Zenon, <2>1, <1>5, <1>7
  <2> QED BY Zenon, <1>6, <2>2 DEF Moves, Reading
<1>9. Steps(t)'
  <2>1. Steps(t) BY Zenon DEF Inv, Living
  <2> QED BY Zenon, <2>1, <1>1, <1>5, <1>6 DEF Steps, Moves, Calling
<1>10. Hears(t)' BY Zenon, <1>5 DEF Hears, Inv, Living
<1>11. /\ "call" \notin {"insert", "publish", "clear"} /\ pc[t] \notin {"insert", "publish", "clear"}
       /\ phase[t] \notin {"new", "gone"} /\ phase'[t] \notin {"new", "gone"} /\ torn \ {t} \subseteq torn'
  BY Zenon, <1>1, <1>2, <1>5
<1> QED BY Zenon, <1>4, <1>5, <1>6, <1>7, <1>8, <1>9, <1>10, <1>11, PlainStep

\* A call has ended; it has registered a port, perhaps, or stopped the server.
LEMMA EndedStep ==
  ASSUME Inv, Types', NEW t \in Isolates, pc[t] = "call", NEW e, NEW r, NEW landed, Ends(t, e, r, landed),
         UNCHANGED <<mine, lastId, addr, holder, instances, work, lock, cache, clear>>,
         \A u \in Isolates \ {t} : phase'[u] = phase[u] /\ heard'[u] = heard[u],
         phase'[t] \in {"created", "listening", "stopped"}, Hears(t)'
  PROVE Inv'
<1>1. Calling(t) BY Zenon DEF Calling
<1>2. phase[t] \in {"created", "listening", "stopped"} BY Zenon, <1>1, CallerIs
<1>3. Types BY Zenon DEF Inv
<1>4. Moves(t, "idle") BY Zenon, <1>3, MovesBy DEF Ends
<1>5. \A u \in Isolates \ {t} : op'[u] = op[u] /\ got'[u] = got[u]
  BY Zenon, <1>3 DEF Ends, Types, StepTypes
<1>6. Reading(t)' BY Zenon, <1>4 DEF Moves, Reading
<1>7. Steps(t)' BY Zenon, <1>4 DEF Moves, Steps, Calling
<1>8. torn \ {t} \subseteq torn' BY Zenon DEF Ends
<1>9. /\ "idle" \notin {"insert", "publish", "clear"} /\ pc[t] \notin {"insert", "publish", "clear"}
      /\ phase[t] \notin {"new", "gone"} /\ phase'[t] \notin {"new", "gone"}
  BY Zenon, <1>2
<1> QED BY Zenon, <1>4, <1>5, <1>6, <1>7, <1>8, <1>9, PlainStep

\* The end of a listen.
LEMMA ListensStep == ASSUME Inv, NEW t \in Isolates, Listens(t) PROVE Inv'
<1>1. Types /\ Types' /\ Living BY Zenon, ListensTypes DEF Inv
<1>2. Steps(t) /\ Hears(t) /\ pc[t] = "call" /\ op[t] = "listen" BY Zenon, <1>1 DEF Living, Listens
<1>3. Calling(t) BY Zenon, <1>2 DEF Calling
<1>4. phase[t] = "created" /\ heard[t] < Streams /\ t \in work.isolates BY Zenon, <1>2, <1>3 DEF Steps, Hears
<1>5. UNCHANGED <<mine, lastId, addr, holder, instances, work, lock, cache, clear>>
  BY Zenon DEF Listens, tableVars
<1>6. /\ heard'[t] = heard[t] + 1 /\ \A u \in Isolates \ {t} : heard'[u] = heard[u]
      /\ heard[t] \in Nat /\ Streams \in Nat /\ heard'[t] <= Streams
  BY <1>1, <1>4, BridgeAssumption DEF Listens, Types, PortTypes
<1>7. /\ phase'[t] = IF heard'[t] = Streams THEN "listening" ELSE "created"
      /\ \A u \in Isolates \ {t} : phase'[u] = phase[u]
  BY Zenon, <1>1, <1>4 DEF Listens, Types, DartTypes
<1>8. Hears(t)' BY <1>4, <1>5, <1>6, <1>7 DEF Hears
<1>9. phase'[t] \in {"created", "listening", "stopped"} BY Zenon, <1>7
<1>10. Ends(t, "none", "void", IF got[t] = Null THEN Nobody ELSE holder[got[t]]) BY Zenon DEF Listens
<1> HIDE DEF Ends
<1> QED BY Zenon, <1>1, <1>2, <1>5, <1>6, <1>7, <1>8, <1>9, <1>10, EndedStep

\* The end of any other call.
LEMMA AnsweredStep ==
  ASSUME Inv, NEW t \in Isolates, NotInitialized(t) \/ Refuses(t) \/ Does(t) PROVE Inv'
<1>1. Types /\ Types' /\ Living BY Zenon, AnsweredTypes, DoesTypes DEF Inv
<1>2. pc[t] = "call" /\ op[t] # "listen" BY Zenon DEF NotInitialized, Refuses, Does
<1>3. Calling(t) /\ Steps(t) /\ Hears(t) BY Zenon, <1>1, <1>2 DEF Calling, Living
<1>4. phase[t] \in {"listening", "stopped"} /\ (op[t] = "stop" => phase[t] = "listening")
  BY Zenon, <1>2, <1>3 DEF Steps
<1>5. UNCHANGED <<mine, lastId, addr, holder, instances, work, lock, cache, clear, heard>>
  BY Zenon DEF NotInitialized, Refuses, Does, tableVars, portVars, dartVars
<1>6. \E e, r, landed : Ends(t, e, r, landed) BY Zenon DEF NotInitialized, Refuses, Does
<1>7. phase' = phase \/ phase' = [phase EXCEPT ![t] = "stopped"]
  BY Zenon DEF NotInitialized, Refuses, Does, dartVars
<1>8. /\ phase'[t] = phase[t] \/ phase'[t] = "stopped"
      /\ \A u \in Isolates \ {t} : phase'[u] = phase[u]
  BY Zenon, <1>1, <1>7 DEF Types, DartTypes
<1>9. Hears(t)' BY Zenon, <1>3, <1>4, <1>5, <1>8 DEF Hears
<1>10. phase'[t] \in {"created", "listening", "stopped"} BY Zenon, <1>4, <1>8
<1>11. \A u \in Isolates \ {t} : phase'[u] = phase[u] /\ heard'[u] = heard[u] BY Zenon, <1>5, <1>8
<1> HIDE DEF Ends
<1> QED BY Zenon, <1>1, <1>2, <1>5, <1>6, <1>9, <1>10, <1>11, EndedStep

\* Undefined behaviour changes nothing of this; nor does an emission.
LEMMA AsideStep ==
  ASSUME Inv, Types', UNCHANGED <<mine, lastId, addr, holder, instances, work, lock, cache, clear>>,
         UNCHANGED <<pc, op, got, phase, heard, torn>>
  PROVE Inv'
<1>1. Named' /\ Locked' BY Zenon DEF Inv, Named, Ahead, Locked
<1>2. Living'
  <2>1. \A u \in Isolates : Lives(u)' BY Zenon DEF Inv, Living, Lives
  <2>2. \A u \in Isolates : Steps(u)' BY Zenon DEF Inv, Living, Steps, Calling
  <2>3. \A u \in Isolates : Hears(u)' BY Zenon DEF Inv, Living, Hears
  <2> QED BY Zenon, <2>1, <2>2, <2>3 DEF Inv, Living
<1>3. Coherent'
  <2>1. \A w \in 0 .. Ways - 1 : Cached(w)'
    <3> SUFFICES ASSUME NEW w \in 0 .. Ways - 1 PROVE Cached(w)' BY Zenon
    <3>1. Cached(w) BY Zenon DEF Inv, Coherent
    <3>2. (HalfWritten(w) => HalfWritten(w)') /\ (Stale(w) => Stale(w)') BY Zenon DEF HalfWritten, Stale, Way
    <3> QED BY Zenon, <3>1, <3>2 DEF Cached
  <2>2. \A u \in Isolates : Clearing(u)' BY Zenon DEF Inv, Coherent, Clearing
  <2>3. \A u \in Isolates : Reading(u)' BY Zenon DEF Inv, Coherent, Reading, Way
  <2> QED BY Zenon, <2>1, <2>2, <2>3 DEF Coherent
<1> QED BY Zenon, <1>1, <1>2, <1>3 DEF Inv

\* An isolate leaves: it cancels its streams, or dies.
LEMMA LeavesStep == ASSUME Inv, NEW t \in Isolates, Cancels(t) \/ Dies(t) PROVE Inv'
<1>1. Types /\ Types' /\ Living BY Zenon, LeavesTypes DEF Inv
<1>2. pc[t] = "idle" /\ phase[t] \in {"listening", "stopped"} BY Zenon DEF Cancels, Dies
<1>3. UNCHANGED <<mine, lastId, addr, holder, instances, work, lock, cache, clear, heard, pc, op, got, torn>>
  BY Zenon DEF Cancels, Dies, tableVars, portVars, callVars, historyVars
<1>4. \/ phase' = [phase EXCEPT ![t] = "dead"] /\ phase[t] = "listening"
      \/ phase' = [phase EXCEPT ![t] = "cancelled"]
  BY Zenon DEF Cancels, Dies
<1>5. /\ phase'[t] = "cancelled" \/ (phase'[t] = "dead" /\ phase[t] = "listening")
      /\ \A u \in Isolates \ {t} : phase'[u] = phase[u]
  BY Zenon, <1>1, <1>4 DEF Types, DartTypes
<1>6. Moves(t, "idle") BY Zenon, <1>2, <1>3 DEF Moves
<1>7. Steps(t)' BY Zenon, <1>2, <1>3, <1>5 DEF Steps, Calling
<1>8. Hears(t)'
  <2>1. Hears(t) BY Zenon, <1>1 DEF Living
  <2> QED BY Zenon, <2>1, <1>2, <1>3, <1>5 DEF Hears
<1>9. Reading(t)' BY Zenon, <1>6 DEF Moves, Reading
<1>10. /\ "idle" \notin {"insert", "publish", "clear"} /\ pc[t] \notin {"insert", "publish", "clear"}
       /\ phase[t] \notin {"new", "gone"} /\ phase'[t] \notin {"new", "gone"} /\ torn \ {t} \subseteq torn'
  BY Zenon, <1>2, <1>3, <1>5
<1> QED BY Zenon, <1>1, <1>3, <1>5, <1>6, <1>7, <1>8, <1>9, <1>10, PlainStep

\* make_shared: the object lives, and is not in the table yet.
LEMMA CreateMakesStep == ASSUME Inv, NEW t \in Isolates, CreateMakes(t) PROVE Inv'
<1>1. Types /\ Types' BY Zenon, CreateMakesTypes DEF Inv
<1>2. PICK a \in Addresses :
        /\ holder[a] = Nobody /\ addr' = [addr EXCEPT ![t] = a] /\ holder' = [holder EXCEPT ![a] = t]
        /\ phase' = [phase EXCEPT ![t] = "created"] /\ pc' = [pc EXCEPT ![t] = "insert"]
  BY Zenon DEF CreateMakes
<1>3. /\ UNCHANGED <<work, instances, lastId, lock, cache, heard, mine, op, got, clear, torn>>
      /\ phase[t] = "new" /\ pc[t] = "idle" /\ t \in work.isolates
  BY Zenon DEF CreateMakes, portVars, historyVars
<1>4. Moves(t, "insert") BY Zenon, <1>1, <1>2, MovesBy
<1>5. /\ phase'[t] = "created" /\ addr'[t] = a /\ holder'[a] = t
      /\ \A u \in Isolates \ {t} : phase'[u] = phase[u] /\ addr'[u] = addr[u]
      /\ \A b \in Addresses \ {a} : holder'[b] = holder[b]
  BY Zenon, <1>1, <1>2 DEF Types, DartTypes, TableTypes
<1>6. Named'
  <2>1. \A u \in Isolates : phase'[u] = "new" \/ pc'[u] = "insert" <=> phase[u] = "new" \/ pc[u] = "insert"
    BY Zenon, <1>3, <1>4, <1>5 DEF Moves
  <2> QED BY Zenon, <1>3, <2>1, NamedKept DEF Inv
<1>7. Locked'
  <2>1. \A u \in Isolates : pc'[u] \in {"publish", "clear"} <=> pc[u] \in {"publish", "clear"}
    BY Zenon, <1>3, <1>4 DEF Moves
  <2> QED BY Zenon, <1>3, <2>1, LockedKept DEF Inv
<1>8. Coherent'
  <2>1. Reading(t)' BY Zenon, <1>4 DEF Moves, Reading
  <2>2. "insert" \notin {"publish", "clear"} /\ pc[t] \notin {"publish", "clear"} BY Zenon, <1>3
  <2> QED BY Zenon, <1>3, <1>4, <2>1, <2>2, CoherentKept DEF Inv
<1>9. Living'
  <2>1. a # Null /\ t # Nobody BY Zenon, BridgeAssumption
  <2>2. ASSUME NEW u \in Isolates PROVE Lives(u)' /\ Steps(u)' /\ Hears(u)'
    <3>1. Lives(u) /\ Steps(u) /\ Hears(u) BY Zenon DEF Inv, Living
    <3>2. CASE u = t
      <4>1. Lives(u)' BY Zenon, <3>2, <1>4, <1>5, <2>1 DEF Lives, Moves
      <4>2. Steps(u)' BY Zenon, <3>2, <1>4, <1>5 DEF Steps, Moves, Calling
      <4>3. Hears(u)' BY Zenon, <3>1, <3>2, <1>3, <1>5 DEF Hears
      <4> QED BY Zenon, <4>1, <4>2, <4>3
    <3>3. CASE u # t
      <4>1. pc'[u] = pc[u] /\ phase'[u] = phase[u] /\ addr'[u] = addr[u] BY Zenon, <3>3, <1>4, <1>5 DEF Moves
      <4>2. phase[u] \notin {"new", "gone"} => holder'[addr[u]] = u
        <5> HAVE phase[u] \notin {"new", "gone"}
        <5>1. addr[u] \in Addresses /\ holder[addr[u]] = u
          BY Zenon, <1>1, <3>1 DEF Lives, Types, DartTypes
        <5>2. u # Nobody BY Zenon, BridgeAssumption
        <5> QED BY Zenon, <5>1, <5>2, <1>2, <1>5
      <4>3. Lives(u)' BY Zenon, <3>1, <4>1, <4>2, <1>3 DEF Lives
      <4>4. Steps(u)' BY Zenon, <3>1, <4>1, <1>3 DEF Steps, Calling
      <4>5. Hears(u)' BY Zenon, <3>1, <4>1, <1>3 DEF Hears
      <4> QED BY Zenon, <4>3, <4>4, <4>5
    <3> QED BY Zenon, <3>2, <3>3
  <2>3. ASSUME NEW b \in Addresses, holder'[b] # Nobody
        PROVE addr'[holder'[b]] = b /\ phase'[holder'[b]] \notin {"new", "gone"}
    <3>1. CASE b = a BY Zenon, <3>1, <1>5
    <3>2. CASE b # a
      <4>1. holder'[b] = holder[b] /\ holder[b] \in Isolates
        BY Zenon, <1>1, <1>5, <2>3, <3>2 DEF Types, TableTypes
      <4>2. addr[holder[b]] = b /\ phase[holder[b]] \notin {"new", "gone"}
        BY Zenon, <2>3, <4>1 DEF Inv, Living
      <4>3. holder[b] # t BY Zenon, <1>3, <4>2
      <4> QED BY Zenon, <4>1, <4>2, <4>3, <1>5
    <3> QED BY Zenon, <3>1, <3>2
  <2> QED BY Zenon, <2>2, <2>3 DEF Living
<1> QED BY Zenon, <1>1, <1>6, <1>7, <1>8, <1>9 DEF Inv

\* The insertion under the next id.
LEMMA CreateInsertsStep == ASSUME Inv, NEW t \in Isolates, CreateInserts(t) PROVE Inv'
<1> DEFINE id == lastId + 1
<1>1. Types /\ Types' /\ id \in Ids BY Zenon, CreateInsertsTypes DEF Inv
<1>2. /\ UNCHANGED <<work, lock, cache, holder, phase, addr, heard, op, got, clear, torn>>
      /\ pc[t] = "insert" /\ lastId' = id /\ instances' = [instances EXCEPT ![id] = addr[t]]
      /\ mine' = [mine EXCEPT ![t] = id] /\ pc' = [pc EXCEPT ![t] = "idle"]
  BY Zenon DEF CreateInserts, portVars, historyVars
<1>3. Moves(t, "idle") BY Zenon, <1>1, <1>2, MovesBy
<1>4. lastId \in Nat /\ id # 0 /\ id > lastId BY <1>1, IdsAre DEF Types, TableTypes
<1> HIDE DEF id
<1>5. /\ mine'[t] = id /\ \A u \in Isolates \ {t} : mine'[u] = mine[u]
      /\ instances'[id] = addr[t] /\ \A j \in Ids \ {id} : instances'[j] = instances[j]
  BY Zenon, <1>1, <1>2 DEF Types, DartTypes, TableTypes
<1>6. mine[t] = 0 /\ \A u \in Isolates : mine[u] \in Nat /\ mine[u] <= lastId /\ mine[u] # id
  <2>1. mine[t] = 0 BY Zenon, <1>2 DEF Inv, Named
  <2>2. \A u \in Isolates : mine[u] \in Nat /\ mine[u] <= lastId
    BY <1>1, IdsAre DEF Inv, Named, Types, DartTypes
  <2> QED BY <1>4, <2>1, <2>2
<1>7. phase[t] = "created"
  <2>1. Steps(t) BY Zenon DEF Inv, Living
  <2> QED BY Zenon, <2>1, <1>2 DEF Steps
<1>8. Named'
  <2>1. \A u \in Isolates : mine'[u] = 0 <=> phase'[u] = "new" \/ pc'[u] = "insert"
    <3> SUFFICES ASSUME NEW u \in Isolates PROVE mine'[u] = 0 <=> phase'[u] = "new" \/ pc'[u] = "insert"
      BY Zenon
    <3>1. CASE u = t BY Zenon, <3>1, <1>2, <1>3, <1>4, <1>5, <1>7 DEF Moves
    <3>2. CASE u # t BY ZenonT(60), <3>2, <1>2, <1>3, <1>5 DEF Inv, Named, Moves
    <3> QED BY Zenon, <3>1, <3>2
  <2>2. \A u \in Isolates : mine'[u] <= lastId' BY <1>2, <1>4, <1>5, <1>6, <1>1, IdsAre
  <2>3. ASSUME NEW u \in Isolates, NEW v \in Isolates, u # v, mine'[u] = mine'[v] PROVE mine'[u] = 0
    <3>1. u # t /\ v # t BY Zenon, <2>3, <1>5, <1>6
    <3> QED BY ZenonT(60), <2>3, <3>1, <1>5 DEF Inv, Named
  <2>4. Ahead' = Ahead \cup {t} /\ t \notin Ahead BY Zenon, <1>4, <1>5, <1>6 DEF Ahead
  <2>5. IsFiniteSet(Ahead) BY Zenon, BridgeAssumption, FS_Subset DEF Ahead
  <2>6. Cardinality(Ahead') = Cardinality(Ahead) + 1 /\ Cardinality(Ahead) \in Nat
    <3> HIDE DEF Ahead
    <3> QED BY Zenon, <2>4, <2>5, FS_AddElement, FS_CardinalityType
  <2>7. lastId' = 1 + Cardinality(Ahead')
    <3>1. lastId = 1 + Cardinality(Ahead) BY Zenon DEF Inv, Named
    <3> QED BY <1>2, <2>6, <3>1 DEF id
  <2>8. Cardinality(Ahead)' = Cardinality(Ahead') BY Zenon
  <2> QED BY Zenon, <2>1, <2>2, <2>3, <2>7 DEF Named
<1>9. Locked'
  <2>1. \A u \in Isolates : pc'[u] \in {"publish", "clear"} <=> pc[u] \in {"publish", "clear"}
    BY Zenon, <1>2, <1>3 DEF Moves
  <2> QED BY Zenon, <1>2, <2>1, LockedKept DEF Inv
<1>10. Living'
  <2>1. ASSUME NEW u \in Isolates PROVE Lives(u)' /\ Steps(u)' /\ Hears(u)'
    <3>1. Lives(u) /\ Steps(u) /\ Hears(u) BY Zenon DEF Inv, Living
    <3>2. Hears(u)' BY Zenon, <3>1, <1>2 DEF Hears
    <3>3. CASE u = t
      <4>1. Lives(u)' BY Zenon, <3>1, <3>3, <1>2, <1>5 DEF Lives
      <4>2. Steps(u)' BY Zenon, <3>3, <1>2, <1>3, <1>7 DEF Steps, Moves, Calling
      <4> QED BY Zenon, <3>2, <4>1, <4>2
    <3>4. CASE u # t
      <4>1. pc'[u] = pc[u] /\ mine'[u] = mine[u] BY Zenon, <3>4, <1>3, <1>5 DEF Moves
      <4>2. phase[u] \notin {"new", "gone"} /\ pc[u] # "insert" => instances'[mine[u]] = addr[u]
        <5> HAVE phase[u] \notin {"new", "gone"} /\ pc[u] # "insert"
        <5>1. instances[mine[u]] = addr[u] BY Zenon, <3>1 DEF Lives
        <5>2. mine[u] # 0 BY Zenon DEF Inv, Named
        <5>3. mine[u] \in Ids BY Zenon, <5>2, <1>1 DEF Types, DartTypes
        <5> QED BY Zenon, <5>1, <5>3, <1>5, <1>6
      <4>3. Lives(u)' BY Zenon, <3>1, <4>1, <4>2, <1>2 DEF Lives
      <4>4. Steps(u)' BY Zenon, <3>1, <4>1, <1>2 DEF Steps, Calling
      <4> QED BY Zenon, <3>2, <4>3, <4>4
    <3> QED BY Zenon, <3>3, <3>4
  <2> QED BY Zenon, <1>2, <2>1 DEF Inv, Living
<1>11. Coherent'
  <2>1. ASSUME NEW w \in 0 .. Ways - 1 PROVE Cached(w)'
    <3>1. Cached(w) BY Zenon DEF Inv, Coherent
    <3>2. HalfWritten(w) => HalfWritten(w)'
      <4> SUFFICES ASSUME NEW u \in Isolates, pc[u] = "publish", Way(mine[u]) = w PROVE HalfWritten(w)'
        BY Zenon DEF HalfWritten
      <4>1. u # t BY Zenon, <1>2
      <4>2. pc'[u] = "publish" /\ mine'[u] = mine[u] BY Zenon, <4>1, <1>3, <1>5 DEF Moves
      <4> QED BY Zenon, <4>2 DEF HalfWritten, Way
    <3>3. Stale(w) => Stale(w)'
      <4> SUFFICES ASSUME NEW u \in Isolates, pc[u] = "clear", mine[u] = cache[w].id, 2 * Ways - clear[u] <= 2 * w
                   PROVE Stale(w)'
        BY Zenon DEF Stale
      <4>1. u # t BY Zenon, <1>2
      <4>2. pc'[u] = "clear" /\ mine'[u] = mine[u] BY Zenon, <4>1, <1>3, <1>5 DEF Moves
      <4> QED BY Zenon, <4>2, <1>2 DEF Stale
    <3>4. ASSUME cache[w].id # -1 PROVE cache[w].id <= lastId' /\ instances'[cache[w].id] = instances[cache[w].id]
      <4>1. cache[w].id \in Ids /\ cache[w].id <= lastId
        BY Zenon, <1>1, <3>1, <3>4 DEF Cached, Types, TableTypes
      <4>2. cache[w].id # id /\ cache[w].id <= id BY <1>4, <1>1, <4>1, IdsAre
      <4> QED BY Zenon, <1>2, <1>5, <4>1, <4>2
    <3> QED BY Zenon, <1>2, <3>1, <3>2, <3>3, <3>4 DEF Cached
  <2>2. ASSUME NEW u \in Isolates PROVE Clearing(u)'
    <3>1. Clearing(u) /\ (pc'[u] = "clear" => pc[u] = "clear") BY Zenon, <1>2, <1>3 DEF Inv, Coherent, Moves
    <3> QED BY Zenon, <3>1, <1>2 DEF Clearing
  <2>3. ASSUME NEW u \in Isolates PROVE Reading(u)'
    <3>1. CASE u = t BY Zenon, <3>1, <1>3 DEF Moves, Reading
    <3>2. CASE u # t /\ Calling(u)
      <4>1. pc'[u] = pc[u] /\ mine'[u] = mine[u] BY Zenon, <3>2, <1>3, <1>5 DEF Moves
      <4>2. mine[u] \in Ids BY Zenon, <3>2, CallerIs
      <4>3. instances'[mine[u]] = instances[mine[u]] BY Zenon, <4>2, <1>5, <1>6
      <4> QED BY Zenon, <4>1, <4>3, <1>2 DEF Inv, Coherent, Reading, Way
    <3>3. CASE u # t /\ ~Calling(u)
      <4>1. pc'[u] \notin {"ptr", "publish", "call"} BY Zenon, <3>3, <1>3 DEF Moves, Calling
      <4> QED BY Zenon, <4>1 DEF Reading
    <3> QED BY Zenon, <3>1, <3>2, <3>3
  <2> QED BY Zenon, <2>1, <2>2, <2>3 DEF Coherent
<1> QED BY Zenon, <1>1, <1>8, <1>9, <1>10, <1>11 DEF Inv

\* The object goes; its id may still be in the cache, which is not cleared yet.
LEMMA DestroyErasesStep == ASSUME Inv, NEW t \in Isolates, DestroyErases(t) PROVE Inv'
<1> DEFINE a == addr[t]
<1>1. phase[t] = "cancelled" /\ pc[t] = "idle" /\ lock = Nobody BY Zenon DEF DestroyErases
<1>2. Types /\ Lives(t) /\ Steps(t) /\ Hears(t) BY Zenon DEF Inv, Living
<1>3. mine[t] # 0 /\ mine[t] \in Ids
  <2>1. mine[t] # 0 BY Zenon, <1>1 DEF Inv, Named
  <2> QED BY Zenon, <2>1, <1>2 DEF Types, DartTypes
<1>4. Types' BY Zenon, <1>2, <1>3, DestroyErasesTypes
<1>5. a \in Addresses /\ holder[a] = t /\ instances[mine[t]] = a
  <2>1. a # Null /\ holder[a] = t /\ instances[mine[t]] = a BY Zenon, <1>1, <1>2 DEF Lives
  <2> QED BY Zenon, <1>2, <2>1 DEF Types, DartTypes
<1>6. /\ UNCHANGED <<work, lastId, cache, heard, mine, addr, op, got, torn>> /\ lock' = t
      /\ instances' = [instances EXCEPT ![mine[t]] = Null] /\ holder' = [holder EXCEPT ![a] = Nobody]
      /\ phase' = [phase EXCEPT ![t] = "gone"] /\ pc' = [pc EXCEPT ![t] = "clear"]
      /\ clear' = [clear EXCEPT ![t] = 2 * Ways]
  BY Zenon, <1>5 DEF DestroyErases, historyVars
<1>7. Moves(t, "clear") BY Zenon, <1>2, <1>6, MovesBy
<1> HIDE DEF a
<1>8. /\ phase'[t] = "gone" /\ \A u \in Isolates \ {t} : phase'[u] = phase[u]
      /\ clear'[t] = 2 * Ways /\ \A u \in Isolates \ {t} : clear'[u] = clear[u]
      /\ holder'[a] = Nobody /\ \A b \in Addresses \ {a} : holder'[b] = holder[b]
      /\ \A j \in Ids \ {mine[t]} : instances'[j] = instances[j]
  BY Zenon, <1>2, <1>3, <1>5, <1>6 DEF Types, DartTypes, StepTypes, TableTypes
<1>9. \A u \in Isolates : pc[u] \notin {"publish", "clear"} BY Zenon, <1>1, BridgeAssumption DEF Inv, Locked
<1>10. Named'
  <2>1. \A u \in Isolates : phase'[u] = "new" \/ pc'[u] = "insert" <=> phase[u] = "new" \/ pc[u] = "insert"
    BY Zenon, <1>1, <1>7, <1>8 DEF Moves
  <2> QED BY Zenon, <1>6, <2>1, NamedKept DEF Inv
<1>11. Locked' BY Zenon, <1>6, <1>7, <1>9 DEF Locked, Moves
<1>12. Living'
  <2>1. ASSUME NEW u \in Isolates PROVE Lives(u)' /\ Steps(u)' /\ Hears(u)'
    <3>1. Lives(u) /\ Steps(u) /\ Hears(u) BY Zenon DEF Inv, Living
    <3>2. CASE u = t
      <4>1. Lives(u)' BY Zenon, <3>2, <1>8 DEF Lives
      <4>2. Steps(u)' BY Zenon, <3>2, <1>7, <1>8 DEF Steps, Moves, Calling
      <4>3. Hears(u)' BY Zenon, <3>1, <3>2, <1>1, <1>6, <1>8 DEF Hears
      <4> QED BY Zenon, <4>1, <4>2, <4>3
    <3>3. CASE u # t
      <4>1. pc'[u] = pc[u] /\ phase'[u] = phase[u] BY Zenon, <3>3, <1>7, <1>8 DEF Moves
      <4>2. phase[u] \notin {"new", "gone"} => holder'[addr[u]] = u
        <5> HAVE phase[u] \notin {"new", "gone"}
        <5>1. addr[u] \in Addresses /\ holder[addr[u]] = u
          BY Zenon, <1>2, <3>1 DEF Lives, Types, DartTypes
        <5> QED BY Zenon, <5>1, <3>3, <1>5, <1>8
      <4>3. phase[u] \notin {"new", "gone"} /\ pc[u] # "insert" => instances'[mine[u]] = addr[u]
        <5> HAVE phase[u] \notin {"new", "gone"} /\ pc[u] # "insert"
        <5>1. instances[mine[u]] = addr[u] BY Zenon, <3>1 DEF Lives
        <5>2. mine[u] # 0 BY Zenon DEF Inv, Named
        <5>3. mine[u] \in Ids BY Zenon, <5>2, <1>2 DEF Types, DartTypes
        <5>4. mine[u] # mine[t] BY Zenon, <3>3, <5>2 DEF Inv, Named
        <5> QED BY Zenon, <5>1, <5>3, <5>4, <1>8
      <4>4. Lives(u)' BY Zenon, <3>1, <4>1, <4>2, <4>3, <1>6 DEF Lives
      <4>5. Steps(u)' BY Zenon, <3>1, <4>1, <1>6 DEF Steps, Calling
      <4>6. Hears(u)' BY Zenon, <3>1, <4>1, <1>6 DEF Hears
      <4> QED BY Zenon, <4>4, <4>5, <4>6
    <3> QED BY Zenon, <3>2, <3>3
  <2>2. ASSUME NEW b \in Addresses, holder'[b] # Nobody
        PROVE addr'[holder'[b]] = b /\ phase'[holder'[b]] \notin {"new", "gone"}
    <3>1. b # a BY Zenon, <2>2, <1>8
    <3>2. holder'[b] = holder[b] /\ holder[b] \in Isolates
      BY Zenon, <1>2, <1>8, <2>2, <3>1 DEF Types, TableTypes
    <3>3. addr[holder[b]] = b /\ phase[holder[b]] \notin {"new", "gone"} BY Zenon, <2>2, <3>2 DEF Inv, Living
    <3>4. holder[b] # t BY Zenon, <3>1, <3>3 DEF a
    <3> QED BY Zenon, <3>2, <3>3, <3>4, <1>6, <1>8
  <2> QED BY Zenon, <2>1, <2>2 DEF Living
<1>13. Coherent'
  <2>1. ASSUME NEW w \in 0 .. Ways - 1 PROVE Cached(w)'
    <3>1. Cached(w) BY Zenon DEF Inv, Coherent
    <3>2. ~HalfWritten(w) /\ ~Stale(w) BY Zenon, <1>9 DEF HalfWritten, Stale
    <3>3. cache[w].id = mine[t] => Stale(w)'
      <4>1. 2 * Ways - clear'[t] <= 2 * w BY <1>8, BridgeAssumption
      <4>2. pc'[t] = "clear" BY Zenon, <1>7 DEF Moves
      <4> QED BY Zenon, <4>1, <4>2, <1>6 DEF Stale
    <3>4. cache[w].id \notin {-1, mine[t]} => instances'[cache[w].id] = instances[cache[w].id]
      BY Zenon, <1>2, <1>8 DEF Types, TableTypes
    <3> QED BY Zenon, <1>6, <3>1, <3>2, <3>3, <3>4 DEF Cached
  <2>2. ASSUME NEW u \in Isolates PROVE Clearing(u)'
    <3>1. CASE u = t
      <4>1. \A w \in 0 .. Ways - 1 : 2 * Ways - clear'[u] # 2 * w + 1 BY <3>1, <1>8, BridgeAssumption
      <4> QED BY Zenon, <4>1 DEF Clearing
    <3>2. CASE u # t BY Zenon, <3>2, <1>7, <1>9 DEF Moves, Clearing
    <3> QED BY Zenon, <3>1, <3>2
  <2>3. ASSUME NEW u \in Isolates PROVE Reading(u)'
    <3>1. CASE u = t BY Zenon, <3>1, <1>7 DEF Moves, Reading
    <3>2. CASE u # t /\ Calling(u)
      <4>1. pc'[u] = pc[u] BY Zenon, <3>2, <1>7 DEF Moves
      <4>2. mine[u] \in Ids BY Zenon, <3>2, CallerIs
      <4>3. mine[u] # 0 BY <4>2, IdsAre
      <4>4. mine[u] # mine[t] BY Zenon, <3>2, <4>3 DEF Inv, Named
      <4>5. instances'[mine[u]] = instances[mine[u]] BY Zenon, <4>2, <4>4, <1>8
      <4> QED BY Zenon, <4>1, <4>5, <1>6 DEF Inv, Coherent, Reading, Way
    <3>3. CASE u # t /\ ~Calling(u)
      <4>1. pc'[u] \notin {"ptr", "publish", "call"} BY Zenon, <3>3, <1>7 DEF Moves, Calling
      <4> QED BY Zenon, <4>1 DEF Reading
    <3> QED BY Zenon, <3>1, <3>2, <3>3
  <2> QED BY Zenon, <2>1, <2>2, <2>3 DEF Coherent
<1> QED BY Zenon, <1>4, <1>10, <1>11, <1>12, <1>13 DEF Inv

\* Who holds the lock is alone in writing the cache.
LEMMA Alone ==
  ASSUME Inv, NEW t \in Isolates, pc[t] \in {"publish", "clear"}, NEW u \in Isolates, u # t
  PROVE pc[u] \notin {"publish", "clear"}
BY Zenon DEF Inv, Locked

\* Half of a way is cleared.
LEMMA InvalidatesStep == ASSUME Inv, NEW t \in Isolates, Invalidates(t) PROVE Inv'
<1> DEFINE n == 2 * Ways - clear[t]
           z == n \div 2
<1>1. Types /\ Types' BY Zenon, InvalidatesTypes DEF Inv
<1>2. /\ UNCHANGED <<work, instances, lastId, lock, holder, heard, phase, mine, addr, pc, op, got>>
      /\ pc[t] = "clear" /\ clear[t] > 0 /\ clear' = [clear EXCEPT ![t] = @ - 1]
  BY Zenon DEF Invalidates, portVars, dartVars
<1>3. Ways \in Nat \ {0} /\ clear[t] \in 1 .. 2 * Ways BY <1>1, <1>2, BridgeAssumption DEF Types, StepTypes
<1>4. z \in 0 .. Ways - 1 /\ n \in Nat /\ (n % 2 = 0 => n = 2 * z) /\ (n % 2 # 0 => n = 2 * z + 1)
  <2>1. n \in 0 .. 2 * Ways - 1 BY <1>3
  <2> HIDE DEF n
  <2>2. n = 2 * z + (n % 2) /\ n % 2 \in 0 .. 1 /\ z \in Int BY <2>1, <1>3
  <2> HIDE DEF z
  <2> QED BY <2>1, <2>2, <1>3
<1>5. 2 * Ways - clear'[t] = n + 1 /\ \A u \in Isolates \ {t} : clear'[u] = clear[u]
  BY <1>1, <1>2, <1>3 DEF Types, StepTypes
<1>6. \/ n = 2 * z /\ cache' = [cache EXCEPT ![z].id = -1] /\ torn' = torn
      \/ n = 2 * z + 1 /\ cache' = [cache EXCEPT ![z].ptr = Null] /\ torn' = torn \cup Overtaken(z)
  BY Zenon, <1>4 DEF Invalidates
<1> HIDE DEF n, z
<1>7. /\ \A w \in 0 .. Ways - 1 : w # z => cache'[w] = cache[w]
      /\ n = 2 * z => cache'[z].ptr = cache[z].ptr
      /\ cache'[z].id = -1
  <2>1. n = 2 * z + 1 => cache[z].id = -1
    <3>1. Clearing(t) BY Zenon DEF Inv, Coherent
    <3> QED BY Zenon, <3>1, <1>2, <1>4 DEF Clearing, n
  <2> QED BY <1>1, <1>4, <1>6, <2>1 DEF Types, TableTypes
<1>8. Named' /\ Locked' BY Zenon, <1>2 DEF Inv, Named, Ahead, Locked
<1>9. Living'
  <2>1. \A u \in Isolates : Lives(u)' BY Zenon, <1>2 DEF Inv, Living, Lives
  <2>2. \A u \in Isolates : Steps(u)' BY Zenon, <1>2 DEF Inv, Living, Steps, Calling
  <2>3. \A u \in Isolates : Hears(u)' BY Zenon, <1>2 DEF Inv, Living, Hears
  <2> QED BY Zenon, <1>2, <2>1, <2>2, <2>3 DEF Inv, Living
<1>10. Coherent'
  <2>1. ASSUME NEW w \in 0 .. Ways - 1 PROVE Cached(w)'
    <3>1. CASE w = z BY Zenon, <3>1, <1>7 DEF Cached
    <3>2. CASE w # z
      <4>1. Cached(w) /\ cache'[w] = cache[w] BY Zenon, <3>2, <1>7 DEF Inv, Coherent
      <4>2. HalfWritten(w) => HalfWritten(w)' BY Zenon, <1>2 DEF HalfWritten, Way
      <4>3. Stale(w) => Stale(w)'
        <5> SUFFICES ASSUME NEW u \in Isolates, pc[u] = "clear", mine[u] = cache[w].id,
                            2 * Ways - clear[u] <= 2 * w
                     PROVE Stale(w)'
          BY Zenon DEF Stale
        <5>1. u = t BY Zenon, <1>2, Alone
        <5>2. n <= 2 * w BY Zenon, <5>1 DEF n
        <5>3. n + 1 <= 2 * w BY ONLY SMTT(30), <5>2, <3>2, <1>4, <1>6, w \in 0 .. Ways - 1, <1>3
        <5>4. 2 * Ways - clear'[t] <= 2 * w BY Zenon, <5>3, <1>5
        <5> QED BY Zenon, <5>1, <5>4, <1>2, <4>1 DEF Stale
      <4> QED BY Zenon, <4>1, <4>2, <4>3, <1>2 DEF Cached
    <3> QED BY Zenon, <3>1, <3>2
  <2>2. ASSUME NEW u \in Isolates PROVE Clearing(u)'
    <3>1. CASE u = t
      <4>1. ASSUME NEW w \in 0 .. Ways - 1, 2 * Ways - clear'[u] = 2 * w + 1 PROVE cache'[w].id = -1
        <5>1. n + 1 = 2 * w + 1 BY Zenon, <3>1, <4>1, <1>5
        <5>2. w = z BY <5>1, <1>4, <1>6
        <5> QED BY Zenon, <5>2, <1>7
      <4> QED BY Zenon, <4>1 DEF Clearing
    <3>2. CASE u # t
      <4>1. pc'[u] # "clear" BY Zenon, <3>2, <1>2, Alone
      <4> QED BY Zenon, <4>1 DEF Clearing
    <3> QED BY Zenon, <3>1, <3>2
  <2>3. ASSUME NEW u \in Isolates PROVE Reading(u)'
    <3>1. Reading(u) /\ torn \subseteq torn' BY Zenon, <1>6 DEF Inv, Coherent
    <3>2. ASSUME pc[u] = "ptr", u \notin torn' PROVE cache'[Way(mine[u])].ptr = instances[mine[u]]
      <4>1. cache[Way(mine[u])].ptr = instances[mine[u]] BY Zenon, <3>1, <3>2 DEF Reading
      <4>2. Way(mine[u]) \in 0 .. Ways - 1 BY Zenon, <1>1, WayIs DEF Types, DartTypes
      <4>3. CASE Way(mine[u]) # z BY ZenonT(60), <4>1, <4>2, <4>3, <1>7
      <4>4. CASE Way(mine[u]) = z
        <5>1. u \in Overtaken(z) BY Zenon, <3>2, <4>4 DEF Overtaken
        <5>2. n = 2 * z BY Zenon, <5>1, <3>2, <1>6
        <5> QED BY ZenonT(60), <4>1, <4>4, <5>2, <1>7
      <4> QED BY Zenon, <4>3, <4>4
    <3>3. pc[u] # "publish"
      <4>1. CASE u = t BY Zenon, <4>1, <1>2
      <4>2. CASE u # t BY Zenon, <4>2, <1>2, Alone
      <4> QED BY Zenon, <4>1, <4>2
    <3> QED BY Zenon, <3>1, <3>2, <3>3, <1>2 DEF Reading, Way
  <2> QED BY Zenon, <2>1, <2>2, <2>3 DEF Coherent
<1> QED BY Zenon, <1>1, <1>8, <1>9, <1>10 DEF Inv

\* The last way is cleared and the lock given back.
LEMMA DestroyReturnsStep == ASSUME Inv, NEW t \in Isolates, DestroyReturns(t) PROVE Inv'
<1>1. Types /\ Types' BY Zenon, DestroyReturnsTypes DEF Inv
<1>2. /\ UNCHANGED <<work, instances, lastId, cache, holder, heard, phase, mine, addr, op, got, clear, torn>>
      /\ pc[t] = "clear" /\ clear[t] = 0 /\ lock' = Nobody /\ pc' = [pc EXCEPT ![t] = "idle"]
  BY Zenon DEF DestroyReturns, portVars, dartVars, historyVars
<1>3. Moves(t, "idle") BY Zenon, <1>1, <1>2, MovesBy
<1>4. Steps(t) /\ Hears(t) BY Zenon DEF Inv, Living
<1>5. phase[t] = "gone" BY Zenon, <1>2, <1>4 DEF Steps
<1>6. \A u \in Isolates : pc'[u] \notin {"publish", "clear"} BY Zenon, <1>2, <1>3, Alone DEF Moves
<1>7. Named'
  <2>1. \A u \in Isolates : phase'[u] = "new" \/ pc'[u] = "insert" <=> phase[u] = "new" \/ pc[u] = "insert"
    BY Zenon, <1>2, <1>3 DEF Moves
  <2> QED BY Zenon, <1>2, <2>1, NamedKept DEF Inv
<1>8. Locked' BY Zenon, <1>2, <1>6, BridgeAssumption DEF Locked
<1>9. Living'
  <2>1. Steps(t)' BY Zenon, <1>2, <1>3, <1>5 DEF Steps, Moves, Calling
  <2>2. Hears(t)' BY Zenon, <1>2, <1>4 DEF Hears
  <2>3. \A u \in Isolates \ {t} : /\ pc'[u] = pc[u] /\ phase'[u] = phase[u]
                                  /\ op'[u] = op[u] /\ heard'[u] = heard[u]
    BY Zenon, <1>2, <1>3 DEF Moves
  <2>4. pc[t] # "insert" BY Zenon, <1>2
  <2> QED BY Zenon, <1>1, <1>2, <2>1, <2>2, <2>3, <2>4, LivingKept DEF Inv
<1>10. Coherent'
  <2>1. ASSUME NEW w \in 0 .. Ways - 1 PROVE Cached(w)'
    <3>1. Cached(w) BY Zenon DEF Inv, Coherent
    <3>2. ~HalfWritten(w) BY Zenon, <1>2, Alone DEF HalfWritten
    <3>3. ~Stale(w)
      <4> SUFFICES ASSUME NEW u \in Isolates, pc[u] = "clear", 2 * Ways - clear[u] <= 2 * w PROVE FALSE
        BY Zenon DEF Stale
      <4>1. u = t BY Zenon, <1>2, Alone
      <4> QED BY <4>1, <1>2, BridgeAssumption
    <3> QED BY Zenon, <1>2, <3>1, <3>2, <3>3 DEF Cached
  <2>2. \A u \in Isolates : Clearing(u)' BY Zenon, <1>6 DEF Clearing
  <2>3. ASSUME NEW u \in Isolates PROVE Reading(u)'
    <3>1. CASE u = t BY Zenon, <3>1, <1>3 DEF Moves, Reading
    <3>2. CASE u # t BY Zenon, <3>2, <1>2, <1>3 DEF Moves, Inv, Coherent, Reading, Way
    <3> QED BY Zenon, <3>1, <3>2
  <2> QED BY Zenon, <2>1, <2>2, <2>3 DEF Coherent
<1> QED BY ZenonT(60), <1>1, <1>7, <1>8, <1>9, <1>10 DEF Inv

\* The slow path takes the lock and stores the pointer: readers are overtaken.
LEMMA GetLockedStep == ASSUME Inv, NEW t \in Isolates, GetLocked(t) PROVE Inv'
<1> DEFINE z == Way(mine[t])
           p == addr[t]
<1>1. pc[t] = "lock" /\ lock = Nobody BY Zenon DEF GetLocked
<1>2. Calling(t) BY Zenon, <1>1 DEF Calling
<1>3. /\ phase[t] \in {"created", "listening", "stopped"} /\ mine[t] \in Ids
      /\ instances[mine[t]] = p /\ p \in Addresses
  BY Zenon, <1>2, CallerIs
<1>4. mine[t] # 0 /\ p # Null /\ z \in 0 .. Ways - 1 BY SMTT(30), <1>3, IdsAre, WayIs, BridgeAssumption
<1>5. Types /\ Types' BY Zenon, <1>4, GetTypes DEF Inv
<1>6. /\ UNCHANGED <<work, instances, lastId, holder, heard, phase, mine, addr, op, clear>>
      /\ lock' = t /\ got' = [got EXCEPT ![t] = p] /\ cache' = [cache EXCEPT ![z].ptr = p]
      /\ torn' = torn \cup Overtaken(z) /\ pc' = [pc EXCEPT ![t] = "publish"]
  BY Zenon, <1>3, <1>4 DEF GetLocked, portVars, dartVars
<1>7. Moves(t, "publish") BY Zenon, <1>5, <1>6, MovesBy
<1> HIDE DEF p, z
<1>8. /\ got'[t] = p /\ \A u \in Isolates \ {t} : got'[u] = got[u]
      /\ cache'[z].ptr = p /\ cache'[z].id = cache[z].id
      /\ \A w \in 0 .. Ways - 1 : w # z => cache'[w] = cache[w]
  BY ZenonT(60), <1>4, <1>5, <1>6 DEF Types, StepTypes, TableTypes
<1>9. \A u \in Isolates : pc[u] \notin {"publish", "clear"} BY Zenon, <1>1, BridgeAssumption DEF Inv, Locked
<1>10. Named'
  <2>1. \A u \in Isolates : phase'[u] = "new" \/ pc'[u] = "insert" <=> phase[u] = "new" \/ pc[u] = "insert"
    BY Zenon, <1>1, <1>6, <1>7 DEF Moves
  <2> QED BY Zenon, <1>6, <2>1, NamedKept DEF Inv
<1>11. Locked' BY Zenon, <1>6, <1>7, <1>9 DEF Locked, Moves
<1>12. Living'
  <2>1. Steps(t) /\ Hears(t) BY Zenon DEF Inv, Living
  <2>2. Steps(t)' BY Zenon, <1>2, <1>6, <1>7, <2>1 DEF Steps, Moves, Calling
  <2>3. Hears(t)' BY Zenon, <1>6, <2>1 DEF Hears
  <2>4. \A u \in Isolates \ {t} : /\ pc'[u] = pc[u] /\ phase'[u] = phase[u]
                                  /\ op'[u] = op[u] /\ heard'[u] = heard[u]
    BY Zenon, <1>6, <1>7 DEF Moves
  <2>5. pc[t] # "insert" BY Zenon, <1>1
  <2> QED BY ZenonT(60), <1>5, <1>6, <2>2, <2>3, <2>4, <2>5, LivingKept DEF Inv
<1>13. Coherent'
  <2>1. ASSUME NEW w \in 0 .. Ways - 1 PROVE Cached(w)'
    <3>1. Cached(w) /\ ~HalfWritten(w) /\ ~Stale(w) BY Zenon, <1>9 DEF Inv, Coherent, HalfWritten, Stale
    <3>2. CASE w = z
      <4>1. HalfWritten(w)' BY Zenon, <3>2, <1>6, <1>7 DEF HalfWritten, Moves, z, Way
      <4> QED BY Zenon, <3>1, <3>2, <4>1, <1>6, <1>8 DEF Cached
    <3>3. CASE w # z BY Zenon, <3>1, <3>3, <1>6, <1>8 DEF Cached
    <3> QED BY Zenon, <3>2, <3>3
  <2>2. \A u \in Isolates : Clearing(u)' BY Zenon, <1>7, <1>9 DEF Clearing, Moves
  <2>3. ASSUME NEW u \in Isolates PROVE Reading(u)'
    <3>1. CASE u = t BY Zenon, <3>1, <1>3, <1>6, <1>7, <1>8 DEF Moves, Reading, z, Way
    <3>2. CASE u # t
      <4>1. Reading(u) /\ torn \subseteq torn' /\ pc'[u] = pc[u]
        BY Zenon, <3>2, <1>6, <1>7 DEF Inv, Coherent, Moves
      <4>2. ASSUME pc[u] = "ptr", u \notin torn' PROVE cache'[Way(mine[u])].ptr = instances[mine[u]]
        <5>1. cache[Way(mine[u])].ptr = instances[mine[u]] BY Zenon, <4>1, <4>2 DEF Reading
        <5>2. Way(mine[u]) \in 0 .. Ways - 1 BY Zenon, <1>5, WayIs DEF Types, DartTypes
        <5>3. Way(mine[u]) # z
          <6>1. Way(mine[u]) = z => u \in Overtaken(z) BY Zenon, <4>2 DEF Overtaken
          <6> QED BY Zenon, <6>1, <4>2, <1>6
        <5> QED BY Zenon, <5>1, <5>2, <5>3, <1>8
      <4>3. pc[u] # "publish" BY Zenon, <1>9
      <4> QED BY Zenon, <3>2, <4>1, <4>2, <4>3, <1>6, <1>8 DEF Reading, Way
    <3> QED BY Zenon, <3>1, <3>2
  <2> QED BY Zenon, <2>1, <2>2, <2>3 DEF Coherent
<1> QED BY Zenon, <1>5, <1>10, <1>11, <1>12, <1>13 DEF Inv

\* It stores the id, and gives the lock back.
LEMMA GetPublishesStep == ASSUME Inv, NEW t \in Isolates, GetPublishes(t) PROVE Inv'
<1> DEFINE z == Way(mine[t])
<1>1. pc[t] = "publish" BY Zenon DEF GetPublishes
<1>2. Calling(t) BY Zenon, <1>1 DEF Calling
<1>3. /\ phase[t] \in {"created", "listening", "stopped"} /\ mine[t] \in Ids
      /\ instances[mine[t]] = addr[t] /\ addr[t] \in Addresses
  BY Zenon, <1>2, CallerIs
<1>4. mine[t] # 0 /\ z \in 0 .. Ways - 1 BY <1>3, IdsAre, WayIs
<1>5. Types /\ Types' BY Zenon, <1>4, GetTypes DEF Inv
<1>6. got[t] = instances[mine[t]] /\ cache[z].ptr = got[t] /\ got[t] # Null
  <2>1. Reading(t) BY Zenon DEF Inv, Coherent
  <2>2. addr[t] # Null BY Zenon, <1>3, BridgeAssumption
  <2> QED BY Zenon, <1>1, <1>3, <2>1, <2>2 DEF Reading
<1>7. /\ UNCHANGED <<work, instances, lastId, holder, heard, phase, mine, addr, op, got, clear, torn>>
      /\ lock' = Nobody /\ cache' = [cache EXCEPT ![z].id = mine[t]] /\ pc' = [pc EXCEPT ![t] = "call"]
  BY Zenon, <1>6 DEF GetPublishes, portVars, dartVars, historyVars
<1>8. Moves(t, "call") BY Zenon, <1>5, <1>7, MovesBy
<1> HIDE DEF z
<1>9. /\ cache'[z].ptr = cache[z].ptr /\ cache'[z].id = mine[t]
      /\ \A w \in 0 .. Ways - 1 : w # z => cache'[w] = cache[w]
  BY Zenon, <1>4, <1>5, <1>7 DEF Types, TableTypes
<1>10. \A u \in Isolates : pc'[u] \notin {"publish", "clear"} BY Zenon, <1>1, <1>8, Alone DEF Moves
<1>11. Named'
  <2>1. \A u \in Isolates : phase'[u] = "new" \/ pc'[u] = "insert" <=> phase[u] = "new" \/ pc[u] = "insert"
    BY Zenon, <1>1, <1>7, <1>8 DEF Moves
  <2> QED BY Zenon, <1>7, <2>1, NamedKept DEF Inv
<1>12. Locked' BY Zenon, <1>7, <1>10, BridgeAssumption DEF Locked
<1>13. Living'
  <2>1. Steps(t) /\ Hears(t) BY Zenon DEF Inv, Living
  <2>2. Steps(t)' BY Zenon, <1>2, <1>7, <1>8, <2>1 DEF Steps, Moves, Calling
  <2>3. Hears(t)' BY Zenon, <1>7, <2>1 DEF Hears
  <2>4. \A u \in Isolates \ {t} : /\ pc'[u] = pc[u] /\ phase'[u] = phase[u]
                                  /\ op'[u] = op[u] /\ heard'[u] = heard[u]
    BY Zenon, <1>7, <1>8 DEF Moves
  <2>5. pc[t] # "insert" BY Zenon, <1>1
  <2> QED BY Zenon, <1>5, <1>7, <2>2, <2>3, <2>4, <2>5, LivingKept DEF Inv
<1>14. Coherent'
  <2>1. ASSUME NEW w \in 0 .. Ways - 1 PROVE Cached(w)'
    <3>1. CASE w = z
      <4>1. mine[t] <= lastId BY Zenon DEF Inv, Named
      <4> QED BY Zenon, <3>1, <4>1, <1>6, <1>7, <1>9 DEF Cached
    <3>2. CASE w # z
      <4>1. Cached(w) BY Zenon DEF Inv, Coherent
      <4>2. ~HalfWritten(w) BY Zenon, <3>2, <1>1, Alone DEF HalfWritten, z
      <4>3. ~Stale(w) BY Zenon, <1>1, Alone DEF Stale
      <4> QED BY Zenon, <3>2, <4>1, <4>2, <4>3, <1>7, <1>9 DEF Cached
    <3> QED BY Zenon, <3>1, <3>2
  <2>2. \A u \in Isolates : Clearing(u)' BY Zenon, <1>10 DEF Clearing
  <2>3. ASSUME NEW u \in Isolates PROVE Reading(u)'
    <3>1. CASE u = t BY Zenon, <3>1, <1>6, <1>7, <1>8 DEF Moves, Reading
    <3>2. CASE u # t
      <4>1. Reading(u) /\ pc'[u] = pc[u] BY Zenon, <3>2, <1>8 DEF Inv, Coherent, Moves
      <4>2. Way(mine[u]) \in 0 .. Ways - 1 BY Zenon, <1>5, WayIs DEF Types, DartTypes
      <4>3. cache'[Way(mine[u])].ptr = cache[Way(mine[u])].ptr BY Zenon, <4>2, <1>9
      <4> QED BY Zenon, <4>1, <4>3, <1>7 DEF Reading, Way
    <3> QED BY Zenon, <3>1, <3>2
  <2> QED BY Zenon, <2>1, <2>2, <2>3 DEF Coherent
<1> QED BY Zenon, <1>5, <1>11, <1>12, <1>13, <1>14 DEF Inv

-----------------------------------------------------------------------------
\* Before anybody has an object.
LEMMA Initially == ASSUME BridgeInit PROVE Inv
<1>1. Cardinality(Isolates) \in Nat /\ Ids = 1 .. Cardinality(Isolates) + 1 BY Zenon, IdsAre
<1>2. Ways \in Nat \ {0} /\ Streams \in Nat \ {0} BY Zenon, BridgeAssumption
<1>3. Types
  <2>1. TableTypes BY <1>1, <1>2 DEF BridgeInit, TableTypes
  <2>2. EngineTypes /\ PortTypes /\ DartTypes BY <1>2 DEF BridgeInit, EngineTypes, PortTypes, DartTypes
  <2>3. StepTypes BY <1>2 DEF BridgeInit, StepTypes, NoCall
  <2>4. PastTypes BY Zenon DEF BridgeInit, PastTypes
  <2> QED BY Zenon, <2>1, <2>2, <2>3, <2>4 DEF Types
<1>4. Named
  <2>1. Ahead = {} BY Zenon DEF BridgeInit, Ahead
  <2>2. Cardinality(Ahead) = 0 BY Zenon, <2>1, FS_EmptySet
  <2> QED BY <2>2 DEF BridgeInit, Named
<1>5. Living
  <2>1. \A t \in Isolates : Lives(t) /\ Steps(t) /\ Hears(t)
    BY <1>2 DEF BridgeInit, Lives, Steps, Hears, Calling
  <2> QED BY Zenon, <2>1 DEF BridgeInit, Living
<1>6. Locked BY Zenon, BridgeAssumption DEF BridgeInit, Locked
<1>7. Coherent BY Zenon DEF BridgeInit, Coherent, Cached, Clearing, Reading
<1> QED BY Zenon, <1>3, <1>4, <1>5, <1>6, <1>7 DEF Inv

\* Every step keeps the invariant.
LEMMA Step == ASSUME Inv, [BridgeNext]_bridgeVars PROVE Inv'
<1>1. Types BY Zenon DEF Inv
<1>2. ASSUME NEW t \in Isolates, IsolateNext(t) PROVE Inv'
  <2>1. CASE CreateMakes(t) BY Zenon, <2>1, CreateMakesStep
  <2>2. CASE CreateInserts(t) BY Zenon, <2>2, CreateInsertsStep
  <2>3. CASE DestroyErases(t) BY Zenon, <2>3, DestroyErasesStep
  <2>4. CASE Invalidates(t) BY Zenon, <2>4, InvalidatesStep
  <2>5. CASE DestroyReturns(t) BY Zenon, <2>5, DestroyReturnsStep
  <2>6. CASE \E w \in Exercised \cup {"listen", "start", "stop", "detachEmitter"} : Call(t, w)
    BY Zenon, <2>6, CallStep
  <2>7. CASE GetId(t) BY Zenon, <2>7, GetIdStep
  <2>8. CASE GetPtr(t) BY Zenon, <2>8, GetPtrStep
  <2>9. CASE GetLocked(t) BY Zenon, <2>9, GetLockedStep
  <2>10. CASE GetPublishes(t) BY Zenon, <2>10, GetPublishesStep
  <2>11. CASE Listens(t) BY Zenon, <2>11, ListensStep
  <2>12. CASE NotInitialized(t) \/ Refuses(t) \/ Does(t) BY Zenon, <2>12, AnsweredStep
  <2>13. CASE CallsFreed(t)
    <3>1. Types' BY Zenon, <1>1, <2>13, AnsweredTypes
    <3> QED BY Zenon, <2>13, <3>1, AsideStep DEF CallsFreed, tableVars, dartVars, portVars, callVars
  <2>14. CASE Cancels(t) \/ Dies(t) BY Zenon, <2>14, LeavesStep
  <2> QED BY ZenonT(60), <1>2, <2>1, <2>2, <2>3, <2>4, <2>5, <2>6, <2>7, <2>8, <2>9, <2>10, <2>11, <2>12, <2>13, <2>14
          DEF IsolateNext
<1>3. ASSUME NEW k \in Keys, EmitPicks(k) \/ Emits(k) PROVE Inv'
  <2>1. Types' BY Zenon, <1>1, <1>3, EmitTypes
  <2> QED BY Zenon, <1>3, <2>1, AsideStep
          DEF EmitPicks, Emits, tableVars, dartVars, portVars, callVars, historyVars
<1>4. CASE UNCHANGED bridgeVars
  <2>1. UNCHANGED <<tableVars, engineVars, portVars, dartVars, callVars, historyVars>>
    BY Zenon, <1>4 DEF bridgeVars
  <2>2. Types' BY Zenon, <1>1, <2>1, TypesKept DEF Types
  <2> QED BY Zenon, <2>1, <2>2, AsideStep DEF tableVars, dartVars, portVars, callVars, historyVars
<1> QED BY Zenon, <1>2, <1>3, <1>4 DEF BridgeNext

\* The table, the cache and the lookups under way agree, however the isolates
\* create, look up and destroy their objects (_nitro_get_instance).
THEOREM Invariance == BridgeSpec => []Inv
<1>1. BridgeInit => Inv BY Zenon, Initially
<1>2. Inv /\ [BridgeNext]_bridgeVars => Inv' BY Zenon, Step
<1> QED BY <1>1, <1>2, PTL DEF BridgeSpec

\* A lookup gives the caller the object its id stands for, unless its way of
\* the cache was being written while it read it (_nitro_get_instance).
THEOREM OwnAlwaysUnlessTorn == BridgeSpec => []OwnUnlessTorn
<1>1. Inv => OwnUnlessTorn BY Zenon DEF Inv, Coherent, Reading, OwnUnlessTorn
<1> QED BY <1>1, Invariance, PTL

-----------------------------------------------------------------------------
\* What the streams keep in a step.
StreamsKept == Bound' /\ (mistaken' = {} => Served')

\* A server stays ready unless an isolate of it that is not leaves its place.
LEMMA ReadyKept ==
  ASSUME NEW t \in Isolates, UNCHANGED work, \A u \in Isolates \ {t} : phase'[u] = phase[u],
         NEW k, Ready(k), phase'[t] \in {"listening", "dead"} \/ ~Ready(Key[t]) \/ k # Key[t]
  PROVE Ready(k)'
BY Zenon DEF Ready

\* A step that changes neither objects nor streams, and begins no start.
LEMMA QuietStep ==
  ASSUME Bound, mistaken = {} => Served, mistaken' = {} => mistaken = {},
         UNCHANGED <<work, holder, phase, addr, ports, heard, emitters, running, emitting, unheard, misused>>,
         \A u \in Isolates : (Calling(u) /\ op[u] = "start")' => (Calling(u) /\ op[u] = "start") \/ Ready(Key[u])
  PROVE StreamsKept
<1>1. Bound' BY Zenon DEF Bound
<1>2. ASSUME mistaken' = {} PROVE Served'
  <2>1. Served BY Zenon, <1>2
  <2>2. \A k : Ready(k) => Ready(k)' BY Zenon DEF Ready
  <2>3. ASSUME NEW u \in Isolates PROVE Calls(u)'
    <3>1. Calls(u) BY Zenon, <2>1 DEF Served
    <3>2. (Calling(u) /\ op[u] = "start")' => Ready(Key[u])' BY Zenon, <3>1, <2>2 DEF Calls
    <3> QED BY Zenon, <3>1, <3>2 DEF Calls
  <2>4. \A k \in Keys : Loops(k)' BY Zenon, <2>1, <2>2 DEF Served, Loops
  <2> QED BY Zenon, <2>1, <2>3, <2>4 DEF Served
<1> QED BY Zenon, <1>1, <1>2 DEF StreamsKept

\* The steps of a lookup, of an insertion and of a clearing.
LEMMA LookupStreams ==
  ASSUME StreamInv, NEW t \in Isolates,
         \/ CreateInserts(t) \/ Invalidates(t) \/ DestroyReturns(t)
         \/ GetId(t) \/ GetPtr(t) \/ GetLocked(t) \/ GetPublishes(t)
  PROVE StreamsKept
<1>1. Types BY Zenon DEF StreamInv, Inv
<1>2. UNCHANGED <<work, holder, phase, addr, ports, heard, emitters, running, emitting, unheard, misused, mistaken, op>>
  BY Zenon DEF CreateInserts, Invalidates, DestroyReturns, GetId, GetPtr, GetLocked, GetPublishes,
         tableVars, engineVars, portVars, dartVars, historyVars
<1>3. ASSUME NEW u \in Isolates, Calling(u)' PROVE Calling(u)
  <2>1. CASE Invalidates(t) BY Zenon, <1>3, <2>1 DEF Invalidates, Calling
  <2>2. CASE CreateInserts(t) \/ DestroyReturns(t)
    <3>1. Moves(t, "idle") BY Zenon, <1>1, <2>2, MovesBy DEF CreateInserts, DestroyReturns
    <3> QED BY Zenon, <1>3, <3>1 DEF Moves, Calling
  <2>3. CASE GetId(t) \/ GetPtr(t) \/ GetLocked(t) \/ GetPublishes(t)
    <3>1. Calling(t) BY Zenon, <2>3 DEF GetId, GetPtr, GetLocked, GetPublishes, Calling
    <3>2. \E s : pc' = [pc EXCEPT ![t] = s] BY Zenon, <2>3 DEF GetId, GetPtr, GetLocked, GetPublishes
    <3>3. \E s : Moves(t, s) BY Zenon, <1>1, <3>2, MovesBy
    <3> QED BY Zenon, <1>3, <3>1, <3>3 DEF Moves, Calling
  <2> QED BY Zenon, <2>1, <2>2, <2>3
<1>4. Bound /\ (mistaken = {} => Served) BY Zenon DEF StreamInv
<1> QED BY Zenon, <1>2, <1>3, <1>4, QuietStep

\* A call begins; a start begins when its server is ready.
LEMMA CallStreams ==
  ASSUME StreamInv, NEW t \in Isolates, NEW w, Call(t, w) PROVE StreamsKept
<1>1. Types BY Zenon DEF StreamInv, Inv
<1>2. UNCHANGED <<work, holder, phase, addr, ports, heard, emitters, running, emitting, unheard, misused, mistaken>>
  BY Zenon DEF Call, tableVars, engineVars, portVars, historyVars
<1>3. ASSUME NEW u \in Isolates, (Calling(u) /\ op[u] = "start")'
      PROVE (Calling(u) /\ op[u] = "start") \/ Ready(Key[u])
  <2>1. CASE u = t
    <3>1. op'[t] = w /\ MayCall(t, w) BY Zenon, <1>1 DEF Call, Types, StepTypes
    <3>2. w = "start" BY Zenon, <1>3, <2>1, <3>1
    <3>3. \A v \in work.isolates : Key[v] = Key[t] => phase[v] = "listening" BY Zenon, <3>1, <3>2 DEF MayCall
    <3> QED BY Zenon, <2>1, <3>3 DEF Ready
  <2>2. CASE u # t
    <3>1. pc'[u] = pc[u] /\ op'[u] = op[u] BY Zenon, <1>1, <2>2 DEF Call, Types, StepTypes
    <3> QED BY Zenon, <1>3, <3>1 DEF Calling
  <2> QED BY Zenon, <2>1, <2>2
<1>4. Bound /\ (mistaken = {} => Served) BY Zenon DEF StreamInv
<1> QED BY Zenon, <1>2, <1>3, <1>4, QuietStep

\* What an unmistaken call has reached.
LEMMA Landed ==
  ASSUME Inv, NEW t \in Isolates, NEW e, NEW r, NEW landed, Ends(t, e, r, landed), mistaken' = {}
  PROVE /\ landed = t /\ mistaken = {}
        /\ landed = holder[got[t]] /\ got[t] # Null => got[t] = addr[t]
<1>1. landed = t /\ mistaken = {} BY Zenon DEF Ends
<1>2. ASSUME landed = holder[got[t]], got[t] # Null PROVE got[t] = addr[t]
  <2>1. got[t] \in Addresses /\ holder[got[t]] = t /\ t # Nobody
    BY <1>1, <1>2, BridgeAssumption DEF Inv, Types, StepTypes
  <2> QED BY Zenon, <2>1 DEF Inv, Living
<1> QED BY Zenon, <1>1, <1>2

\* A call that has ended is not a start.
LEMMA EndedNoStart ==
  ASSUME Types, NEW t \in Isolates, NEW e, NEW r, NEW landed, Ends(t, e, r, landed)
  PROVE /\ ~Calling(t)' /\ \A u \in Isolates \ {t} : pc'[u] = pc[u] /\ op'[u] = op[u]
        /\ \A u \in Isolates : (Calling(u) /\ op[u] = "start")' => Calling(u) /\ op[u] = "start"
<1>1. pc'[t] = "idle" /\ \A u \in Isolates \ {t} : pc'[u] = pc[u] /\ op'[u] = op[u]
  BY Zenon DEF Ends, Types, StepTypes
<1>2. ~Calling(t)' BY Zenon, <1>1 DEF Calling
<1>3. ASSUME NEW u \in Isolates, (Calling(u) /\ op[u] = "start")' PROVE Calling(u) /\ op[u] = "start"
  <2>1. u # t BY Zenon, <1>2, <1>3
  <2> QED BY Zenon, <1>1, <1>3, <2>1 DEF Calling
<1> QED BY Zenon, <1>1, <1>2, <1>3

\* A refused call does nothing, a call of no object or of a freed one is mistaken.
LEMMA RefusedStreams ==
  ASSUME StreamInv, NEW t \in Isolates, NotInitialized(t) \/ CallsFreed(t) \/ Refuses(t) PROVE StreamsKept
<1>1. Inv /\ Types /\ Bound /\ (mistaken = {} => Served) /\ t # Nobody
  BY Zenon, BridgeAssumption DEF StreamInv, Inv
<1>2. CASE NotInitialized(t)
  <2>1. mistaken' # {} BY Zenon, <1>1, <1>2 DEF NotInitialized, Ends
  <2>2. Bound' BY Zenon, <1>1, <1>2 DEF NotInitialized, Bound, tableVars, engineVars
  <2> QED BY Zenon, <2>1, <2>2 DEF StreamsKept
<1>3. CASE CallsFreed(t)
  <2>1. mistaken' # {} BY Zenon, <1>3 DEF CallsFreed
  <2>2. Bound' BY Zenon, <1>1, <1>3 DEF CallsFreed, Bound, tableVars, engineVars
  <2> QED BY Zenon, <2>1, <2>2 DEF StreamsKept
<1>4. CASE Refuses(t)
  <2>1. PICK e, r, landed : Ends(t, e, r, landed) BY Zenon, <1>4 DEF Refuses
  <2>2. mistaken' = {} => mistaken = {} BY Zenon, <1>1, <2>1, Landed
  <2>3. \A u \in Isolates : (Calling(u) /\ op[u] = "start")' => Calling(u) /\ op[u] = "start"
    BY Zenon, <1>1, <2>1, EndedNoStart
  <2>4. UNCHANGED <<work, holder, phase, addr, ports, heard, emitters, running, emitting, unheard, misused>>
    BY Zenon, <1>4 DEF Refuses, tableVars, engineVars, portVars, dartVars
  <2> QED BY Zenon, <1>1, <2>2, <2>3, <2>4, QuietStep
<1> QED BY Zenon, <1>2, <1>3, <1>4

\* A new sink: nobody listens to it yet, and its server does not run.
LEMMA CreateMakesStreams == ASSUME StreamInv, NEW t \in Isolates, CreateMakes(t) PROVE StreamsKept
<1>1. Inv /\ Types /\ Bound /\ (mistaken = {} => Served) BY Zenon DEF StreamInv, Inv
<1>2. PICK a \in Addresses :
        /\ holder[a] = Nobody /\ addr' = [addr EXCEPT ![t] = a] /\ holder' = [holder EXCEPT ![a] = t]
        /\ emitters' = [emitters EXCEPT ![Key[t]] = @ \cup {a}]
        /\ phase' = [phase EXCEPT ![t] = "created"] /\ pc' = [pc EXCEPT ![t] = "insert"]
  BY Zenon DEF CreateMakes
<1>3. /\ UNCHANGED <<work, ports, heard, op, running, emitting, mistaken, unheard, misused>>
      /\ phase[t] = "new" /\ t \in work.isolates
  BY Zenon DEF CreateMakes, portVars, historyVars
<1>4. /\ phase'[t] = "created" /\ addr'[t] = a /\ holder'[a] = t /\ pc'[t] = "insert"
      /\ \A u \in Isolates \ {t} : phase'[u] = phase[u] /\ addr'[u] = addr[u] /\ pc'[u] = pc[u]
      /\ \A b \in Addresses \ {a} : holder'[b] = holder[b]
  BY ZenonT(60), <1>1, <1>2 DEF Types, DartTypes, TableTypes, StepTypes
<1>5. t # Nobody /\ Nobody \notin Isolates /\ Key[t] \in Keys BY Zenon, BridgeAssumption
<1>6. Bound'
  <2>1. \A k \in Keys : \A b \in emitters'[k] : b \in emitters[k] \/ (b = a /\ k = Key[t])
    BY Zenon, <1>1, <1>2, <1>5 DEF Types, EngineTypes
  <2>2. \A k \in Keys : emitters[k] \subseteq Addresses BY Zenon, <1>1 DEF Types, EngineTypes
  <2>3. ASSUME NEW k \in Keys, NEW b \in emitters'[k] PROVE holder'[b] # Nobody /\ Key[holder'[b]] = k
    <3>1. CASE b = a /\ k = Key[t] BY Zenon, <3>1, <1>4, <1>5
    <3>2. CASE b \in emitters[k]
      <4>1. holder[b] # Nobody /\ Key[holder[b]] = k /\ b \in Addresses BY Zenon, <3>2, <1>1, <2>2 DEF Bound
      <4> QED BY Zenon, <4>1, <1>2, <1>4
    <3> QED BY Zenon, <2>1, <3>1, <3>2
  <2> QED BY Zenon, <2>3 DEF Bound
<1>7. ASSUME mistaken' = {} PROVE Served'
  <2>1. Served BY Zenon, <1>1, <1>3, <1>7
  <2>2. \A k : Ready(k) => Ready(k)'
    <3>1. ~Ready(Key[t]) BY Zenon, <1>3 DEF Ready
    <3> QED BY Zenon, <1>3, <1>4, <3>1, ReadyKept
  <2>3. ASSUME NEW u \in Isolates PROVE Calls(u)'
    <3>1. Calls(u) BY Zenon, <2>1 DEF Served
    <3>2. CASE u = t
      <4>1. ~Calling(t)' BY Zenon, <1>4 DEF Calling
      <4>2. heard'[t] = 0 BY Zenon, <3>1, <3>2, <1>3 DEF Calls
      <4>3. 1 .. heard'[t] = {} BY <4>2
      <4>4. phase'[t] # "new" BY Zenon, <1>4
      <4> QED BY Zenon, <3>2, <4>1, <4>3, <4>4 DEF Calls
    <3>3. CASE u # t BY ZenonT(60), <3>1, <3>3, <1>3, <1>4, <2>2 DEF Calls, Calling
    <3> QED BY Zenon, <3>2, <3>3
  <2>4. ASSUME NEW k \in Keys PROVE Loops(k)'
    <3>1. Loops(k) BY Zenon, <2>1 DEF Served
    <3>2. emitting[k] # Null => emitting[k] \in Addresses BY Zenon, <1>1 DEF Types, EngineTypes
    <3>3. emitting[k] # Null => holder'[emitting[k]] = holder[emitting[k]]
      BY Zenon, <3>1, <3>2, <1>2, <1>4 DEF Loops
    <3> QED BY ZenonT(60), <3>1, <3>3, <2>2, <1>3 DEF Loops
  <2>5. ASSUME NEW b \in Addresses, NEW p \in ports'[b] PROVE p[1] = holder'[b]
    <3>1. p \in ports[b] /\ p[1] = holder[b] BY Zenon, <2>1, <2>5, <1>3 DEF Served
    <3>2. p[1] \in Isolates BY <3>1, <1>1 DEF Types, PortTypes
    <3> QED BY ZenonT(60), <3>1, <3>2, <1>2, <1>4, <1>5
  <2> QED BY Zenon, <2>1, <2>3, <2>4, <2>5, <1>3 DEF Served
<1> QED BY Zenon, <1>6, <1>7 DEF StreamsKept

\* The object goes with its sink and its ports; no loop is at it, as its
\* server has stopped.
LEMMA DestroyErasesStreams == ASSUME StreamInv, NEW t \in Isolates, DestroyErases(t) PROVE StreamsKept
<1> DEFINE a == addr[t]
<1>1. Inv /\ Types /\ Bound /\ (mistaken = {} => Served) BY Zenon DEF StreamInv, Inv
<1>2. phase[t] = "cancelled" /\ pc[t] = "idle" BY Zenon DEF DestroyErases
<1>3. Lives(t) /\ Hears(t) BY Zenon, <1>1 DEF Inv, Living
<1>4. a \in Addresses /\ holder[a] = t /\ instances[mine[t]] = a /\ t \in work.isolates
  <2>1. a # Null /\ holder[a] = t /\ instances[mine[t]] = a /\ t \in work.isolates
    BY Zenon, <1>2, <1>3 DEF Lives, Hears
  <2> QED BY Zenon, <1>1, <2>1 DEF Types, DartTypes
<1>5. /\ UNCHANGED <<work, heard, addr, op, running, emitting, mistaken, unheard, misused>>
      /\ emitters' = [emitters EXCEPT ![Key[t]] = @ \ {a}] /\ holder' = [holder EXCEPT ![a] = Nobody]
      /\ phase' = [phase EXCEPT ![t] = "gone"] /\ pc' = [pc EXCEPT ![t] = "clear"]
      /\ ports' = [ports EXCEPT ![a] = {}]
  BY Zenon, <1>4 DEF DestroyErases, historyVars
<1>6. t # Nobody /\ Key[t] \in Keys BY Zenon, BridgeAssumption
<1> HIDE DEF a
<1>7. /\ phase'[t] = "gone" /\ pc'[t] = "clear" /\ \A u \in Isolates \ {t} : phase'[u] = phase[u] /\ pc'[u] = pc[u]
      /\ holder'[a] = Nobody /\ \A b \in Addresses \ {a} : holder'[b] = holder[b]
      /\ ports'[a] = {} /\ \A b \in Addresses \ {a} : ports'[b] = ports[b]
  BY Zenon, <1>1, <1>4, <1>5 DEF Types, DartTypes, StepTypes, TableTypes, PortTypes
<1>8. Bound'
  <2>1. \A k \in Keys : \A b \in emitters'[k] : b \in emitters[k] /\ (b = a => k # Key[t])
    BY Zenon, <1>1, <1>5, <1>6 DEF Types, EngineTypes
  <2>2. \A k \in Keys : emitters[k] \subseteq Addresses BY Zenon, <1>1 DEF Types, EngineTypes
  <2>3. ASSUME NEW k \in Keys, NEW b \in emitters'[k] PROVE holder'[b] # Nobody /\ Key[holder'[b]] = k
    <3>1. holder[b] # Nobody /\ Key[holder[b]] = k /\ b \in Addresses BY Zenon, <2>1, <2>2, <1>1 DEF Bound
    <3>2. b # a BY Zenon, <2>1, <3>1, <1>4
    <3> QED BY Zenon, <3>1, <3>2, <1>7
  <2> QED BY Zenon, <2>3 DEF Bound
<1>9. ASSUME mistaken' = {} PROVE Served'
  <2>1. Served BY Zenon, <1>1, <1>5, <1>9
  <2>2. ~Ready(Key[t]) BY Zenon, <1>2, <1>4 DEF Ready
  <2>3. \A k : Ready(k) => Ready(k)' BY Zenon, <1>5, <1>7, <2>2, ReadyKept
  <2>4. ASSUME NEW u \in Isolates PROVE Calls(u)'
    <3>1. Calls(u) BY Zenon, <2>1 DEF Served
    <3>2. CASE u = t
      <4>1. ~Calling(t)' BY Zenon, <1>7 DEF Calling
      <4>2. phase'[t] \notin {"new", "created", "listening", "dead"} BY Zenon, <1>7
      <4> QED BY Zenon, <3>2, <4>1, <4>2 DEF Calls
    <3>3. CASE u # t
      <4>1. pc'[u] = pc[u] /\ phase'[u] = phase[u] BY Zenon, <3>3, <1>7
      <4>2. phase[u] \in {"created", "listening", "dead"} => ports'[addr[u]] = ports[addr[u]]
        <5> HAVE phase[u] \in {"created", "listening", "dead"}
        <5>1. Lives(u) /\ phase[u] \notin {"new", "gone"} BY Zenon, <1>1 DEF Inv, Living
        <5>2. addr[u] \in Addresses /\ holder[addr[u]] = u BY Zenon, <5>1, <1>1 DEF Lives, Types, DartTypes
        <5> QED BY ZenonT(60), <5>2, <3>3, <1>4, <1>7
      <4> QED BY Zenon, <3>1, <4>1, <4>2, <1>5, <2>3 DEF Calls, Calling
    <3> QED BY Zenon, <3>2, <3>3
  <2>5. ASSUME NEW k \in Keys PROVE Loops(k)'
    <3>1. Loops(k) BY Zenon, <2>1 DEF Served
    <3>2. emitting[k] # Null => holder'[emitting[k]] = holder[emitting[k]]
      <4> HAVE emitting[k] # Null
      <4>1. emitting[k] \in Addresses BY Zenon, <1>1 DEF Types, EngineTypes
      <4>2. emitting[k] # a BY Zenon, <3>1, <1>4, <2>2 DEF Loops
      <4> QED BY Zenon, <4>1, <4>2, <1>7
    <3> QED BY Zenon, <3>1, <3>2, <2>3, <1>5 DEF Loops
  <2>6. \A b \in Addresses : \A p \in ports'[b] : p[1] = holder'[b] BY Zenon, <2>1, <1>7 DEF Served
  <2> QED BY Zenon, <2>1, <2>4, <2>5, <2>6, <1>5 DEF Served
<1> QED BY Zenon, <1>8, <1>9 DEF StreamsKept

\* A stream is registered, under the caller's own object.
LEMMA ListensStreams == ASSUME StreamInv, NEW t \in Isolates, Listens(t) PROVE StreamsKept
<1>1. Inv /\ Types /\ Living /\ Bound /\ (mistaken = {} => Served) BY Zenon DEF StreamInv, Inv
<1>2. PICK landed : Ends(t, "none", "void", landed) /\ landed = (IF got[t] = Null THEN Nobody ELSE holder[got[t]])
  BY Zenon DEF Listens
<1>3. UNCHANGED <<work, holder, addr, running, emitting, emitters, unheard, misused>>
  BY Zenon DEF Listens, tableVars, engineVars
<1>4. Bound' BY Zenon, <1>1, <1>3 DEF Bound
<1>5. ASSUME mistaken' = {} PROVE Served'
  <2> DEFINE a == addr[t]
  <2>1. landed = t /\ mistaken = {} BY ZenonT(60), <1>1, <1>2, <1>5, Landed
  <2>2. got[t] # Null /\ landed = holder[got[t]]
    <3>1. t # Nobody BY Zenon, BridgeAssumption
    <3> QED BY Zenon, <1>2, <2>1, <3>1
  <2>3. got[t] = a BY Zenon, <1>1, <1>2, <1>5, <2>2, Landed
  <2>4. Served BY Zenon, <1>1, <2>1
  <2>5. pc[t] = "call" /\ op[t] = "listen" BY Zenon DEF Listens
  <2>6. Calling(t) /\ Steps(t) /\ Hears(t) BY Zenon, <1>1, <2>5 DEF Calling, Living
  <2>7. phase[t] = "created" /\ heard[t] < Streams /\ t \in work.isolates BY Zenon, <2>5, <2>6 DEF Steps, Hears
  <2>8. a \in Addresses /\ holder[a] = t BY ZenonT(60), <1>1, <2>6, CallerIs
  <2>9. heard[t] \in Nat /\ heard'[t] = heard[t] + 1 /\ \A u \in Isolates \ {t} : heard'[u] = heard[u]
    BY <1>1, BridgeAssumption DEF Listens, Types, PortTypes
  <2>10. /\ phase'[t] \in {"created", "listening"} /\ \A u \in Isolates \ {t} : phase'[u] = phase[u]
    BY Zenon, <1>1, <2>7 DEF Listens, Types, DartTypes
  <2>11. ports' = [ports EXCEPT ![a] = @ \cup {<<t, heard'[t]>>}] BY Zenon, <2>3 DEF Listens
  <2> HIDE DEF a
  <2>12. ports'[a] = ports[a] \cup {<<t, heard'[t]>>} /\ \A b \in Addresses \cup {Null} : b # a => ports'[b] = ports[b]
    BY Zenon, <1>1, <2>8, <2>11 DEF Types, PortTypes
  <2>13. \A k : Ready(k) => Ready(k)'
    <3>1. ~Ready(Key[t]) BY Zenon, <2>7 DEF Ready
    <3> QED BY Zenon, <1>3, <2>10, <3>1, ReadyKept
  <2>14. /\ ~Calling(t)' /\ \A u \in Isolates \ {t} : pc'[u] = pc[u] /\ op'[u] = op[u]
    BY Zenon, <1>1, <1>2, EndedNoStart
  <2>15. ASSUME NEW u \in Isolates PROVE Calls(u)'
    <3>1. Calls(u) BY Zenon, <2>4 DEF Served
    <3>2. CASE u = t
      <4>1. \A n \in 1 .. heard'[t] : n \in 1 .. heard[t] \/ n = heard'[t] BY <2>9
      <4>2. \A n \in 1 .. heard[t] : <<t, n>> \in ports[a] BY Zenon, <3>1, <3>2, <2>7 DEF Calls, a
      <4>3. \A n \in 1 .. heard'[t] : <<t, n>> \in ports'[a] BY Zenon, <4>1, <4>2, <2>12
      <4>4. phase'[t] # "new" BY Zenon, <2>10
      <4> QED BY Zenon, <3>2, <4>3, <4>4, <2>14, <1>3 DEF Calls, a
    <3>3. CASE u # t
      <4>1. \A b \in Addresses \cup {Null} : ports[b] \subseteq ports'[b] BY Zenon, <2>12
      <4>2. ports[addr[u]] \subseteq ports'[addr[u]] BY Zenon, <4>1, <1>1 DEF Types, DartTypes
      <4> QED BY ZenonT(60), <3>1, <3>3, <4>2, <1>3, <2>9, <2>10, <2>13, <2>14 DEF Calls, Calling
    <3> QED BY Zenon, <3>2, <3>3
  <2>16. \A k \in Keys : Loops(k)' BY Zenon, <2>4, <2>13, <1>3 DEF Served, Loops
  <2>17. ASSUME NEW b \in Addresses, NEW p \in ports'[b] PROVE p[1] = holder'[b]
    <3>1. CASE p \in ports[b] BY Zenon, <3>1, <2>4, <1>3 DEF Served
    <3>2. CASE p \notin ports[b]
      <4>1. b = a /\ p = <<t, heard'[t]>> BY Zenon, <2>17, <3>2, <2>12
      <4> QED BY Zenon, <4>1, <2>8, <1>3
    <3> QED BY Zenon, <3>1, <3>2
  <2> QED BY ZenonT(60), <2>4, <2>15, <2>16, <2>17, <1>3 DEF Served
<1> QED BY Zenon, <1>4, <1>5 DEF StreamsKept

\* The call is done by the engine of the caller's own object: a start finds
\* its server ready, a stop has joined its loops.
LEMMA DoesStreams == ASSUME StreamInv, NEW t \in Isolates, Does(t) PROVE StreamsKept
<1> DEFINE k == Key[holder[got[t]]]
<1>1. Inv /\ Types /\ Living /\ Bound /\ (mistaken = {} => Served) BY Zenon DEF StreamInv, Inv
<1>2. Ends(t, "none", "value", holder[got[t]]) BY Zenon DEF Does
<1>3. /\ UNCHANGED <<work, holder, addr, ports, heard, emitting, unheard, misused>>
      /\ pc[t] = "call" /\ op[t] # "listen" /\ got[t] # Null /\ holder[got[t]] # Nobody
  BY Zenon DEF Does, tableVars, portVars
<1>4. k \in Keys
  <2>1. holder[got[t]] \in Isolates BY Zenon, <1>1, <1>3 DEF Types, StepTypes, TableTypes
  <2> QED BY Zenon, <2>1, BridgeAssumption
<1>5. Bound'
  <2>1. \A j \in Keys : emitters'[j] \subseteq emitters[j]
    <3>1. \/ emitters' = emitters
          \/ \E u \in Isolates : emitters' = [emitters EXCEPT ![k] = @ \ {addr[u]}]
      BY Zenon DEF Does
    <3> HIDE DEF k
    <3> QED BY Zenon, <1>1, <1>4, <3>1 DEF Types, EngineTypes
  <2> QED BY Zenon, <1>1, <1>3, <2>1 DEF Bound
<1>6. ASSUME mistaken' = {} PROVE Served'
  <2>1. holder[got[t]] = t /\ mistaken = {} BY Zenon, <1>1, <1>2, <1>6, Landed
  <2>2. Served /\ k = Key[t] BY Zenon, <1>1, <2>1
  <2>3. Calling(t) /\ Steps(t) BY Zenon, <1>1, <1>3 DEF Calling, Living
  <2>4. phase' = (IF op[t] = "stop" THEN [phase EXCEPT ![t] = "stopped"] ELSE phase)
    BY Zenon DEF Does
  <2>5. running' = CASE op[t] = "start" -> [running EXCEPT ![k] = TRUE]
                     [] op[t] = "stop" -> [running EXCEPT ![k] = FALSE]
                     [] op[t] = "resetNative" -> [j \in Keys |-> FALSE]
                     [] OTHER -> running
    BY Zenon DEF Does
  <2>6. /\ op[t] = "stop" => emitting[k] = Null
        /\ op[t] = "resetNative" => \A j \in Keys : emitting[j] = Null
    BY Zenon DEF Does
  <2> HIDE DEF k
  <2>7. \A u \in Isolates \ {t} : phase'[u] = phase[u] BY Zenon, <1>1, <2>4 DEF Types, DartTypes
  <2>8. phase'[t] = "stopped" \/ phase'[t] = phase[t] BY Zenon, <1>1, <2>4 DEF Types, DartTypes
  <2>9. \A j : Ready(j) /\ (op[t] = "stop" => j # k) => Ready(j)'
    <3>1. CASE op[t] = "stop" BY Zenon, <3>1, <2>2, <2>7, <1>3, ReadyKept
    <3>2. CASE op[t] # "stop"
      <4>1. phase' = phase BY Zenon, <3>2, <2>4
      <4> QED BY Zenon, <4>1, <1>3 DEF Ready
    <3> QED BY Zenon, <3>1, <3>2
  <2>10. /\ ~Calling(t)' /\ \A u \in Isolates \ {t} : pc'[u] = pc[u] /\ op'[u] = op[u]
    BY Zenon, <1>1, <1>2, EndedNoStart
  <2>11. ASSUME NEW u \in Isolates PROVE Calls(u)'
    <3>1. Calls(u) BY Zenon, <2>2 DEF Served
    <3>2. (Calling(u) /\ op[u] = "start")' => Ready(Key[u])'
      <4> HAVE (Calling(u) /\ op[u] = "start")'
      <4>1. u # t BY Zenon, <2>10
      <4>2. Calling(u) /\ op[u] = "start" BY Zenon, <4>1, <2>10 DEF Calling
      <4>3. Ready(Key[u]) BY Zenon, <3>1, <4>2 DEF Calls
      <4>4. op[t] = "stop" => Key[u] # k
        <5> HAVE op[t] = "stop"
        <5>1. t \in Mains BY Zenon, <2>3 DEF Steps
        <5>2. Steps(u) BY Zenon, <1>1 DEF Living
        <5>3. u \in Mains BY ZenonT(60), <4>2, <5>2 DEF Steps
        <5> QED BY Zenon, <4>1, <5>1, <5>3, <2>2, BridgeAssumption
      <4> QED BY Zenon, <2>9, <4>3, <4>4
    <3>3. phase'[u] \in {"new", "created", "listening", "dead"} => phase'[u] = phase[u]
      <4>1. CASE u = t BY Zenon, <4>1, <2>8
      <4>2. CASE u # t BY Zenon, <4>2, <2>7
      <4> QED BY Zenon, <4>1, <4>2
    <3> QED BY Zenon, <3>1, <3>2, <3>3, <1>3 DEF Calls
  <2>12. ASSUME NEW j \in Keys PROVE Loops(j)'
    <3>1. Loops(j) BY Zenon, <2>2 DEF Served
    <3>2. running'[j] => Ready(j)'
      <4>1. CASE op[t] = "start"
        <5>1. Ready(k) BY Zenon, <4>1, <2>2, <2>3 DEF Served, Calls
        <5>2. running' = [running EXCEPT ![k] = TRUE] /\ op[t] # "stop" BY Zenon, <4>1, <2>5
        <5>3. j # k => running'[j] = running[j] BY Zenon, <5>2, <1>1 DEF Types, EngineTypes
        <5> QED BY ZenonT(60), <3>1, <5>1, <5>2, <5>3, <2>9 DEF Loops
      <4>2. CASE op[t] = "stop"
        <5>1. running' = [running EXCEPT ![k] = FALSE] BY Zenon, <4>2, <2>5
        <5>2. ~running'[k] /\ (j # k => running'[j] = running[j])
          BY Zenon, <5>1, <1>1, <1>4 DEF Types, EngineTypes
        <5> QED BY Zenon, <3>1, <5>2, <2>9 DEF Loops
      <4>3. CASE op[t] = "resetNative" BY Zenon, <4>3, <2>5
      <4>4. CASE op[t] \notin {"start", "stop", "resetNative"}
        <5>1. running' = running /\ op[t] # "stop" BY Zenon, <4>4, <2>5
        <5> QED BY Zenon, <3>1, <5>1, <2>9 DEF Loops
      <4> QED BY ZenonT(60), <4>1, <4>2, <4>3, <4>4
    <3>3. emitting[j] # Null => running'[j]
      <4> HAVE emitting[j] # Null
      <4>1. running[j] BY Zenon, <3>1 DEF Loops
      <4>2. (op[t] = "stop" => j # k) /\ op[t] # "resetNative" BY Zenon, <2>6
      <4> QED BY ZenonT(60), <4>1, <4>2, <2>5, <1>1, <1>4 DEF Types, EngineTypes
    <3> QED BY Zenon, <3>1, <3>2, <3>3, <1>3 DEF Loops
  <2> QED BY Zenon, <2>2, <2>11, <2>12, <1>3 DEF Served
<1> QED BY Zenon, <1>5, <1>6 DEF StreamsKept

\* An isolate leaves: it cancels when its server is no longer ready, or dies.
LEMMA LeavesStreams == ASSUME StreamInv, NEW t \in Isolates, Cancels(t) \/ Dies(t) PROVE StreamsKept
<1>1. Inv /\ Types /\ Living /\ Bound /\ (mistaken = {} => Served) BY Zenon DEF StreamInv, Inv
<1>2. UNCHANGED <<work, holder, addr, heard, running, emitting, emitters, unheard, misused, mistaken, pc, op>>
  BY Zenon DEF Cancels, Dies, tableVars, engineVars, portVars, callVars, historyVars
<1>3. phase[t] # "new" BY Zenon DEF Cancels, Dies
<1>4. \E s \in {"cancelled", "dead"} : phase' = [phase EXCEPT ![t] = s] /\ (s = "dead" => phase[t] = "listening")
  BY Zenon DEF Cancels, Dies
<1>5. /\ \A u \in Isolates \ {t} : phase'[u] = phase[u]
      /\ phase'[t] = "cancelled" \/ (phase'[t] = "dead" /\ phase[t] = "listening")
  BY Zenon, <1>1, <1>4 DEF Types, DartTypes
<1>6. phase'[t] = "dead" \/ ~Ready(Key[t])
  <2>1. CASE Dies(t) BY Zenon, <1>1, <2>1 DEF Dies, Types, DartTypes
  <2>2. CASE Cancels(t) /\ phase[t] = "stopped"
    <3>1. Hears(t) BY Zenon, <1>1 DEF Living
    <3>2. t \in work.isolates BY Zenon, <1>3, <3>1 DEF Hears
    <3> QED BY Zenon, <2>2, <3>2 DEF Ready
  <2>3. CASE \E m \in Mains : Key[m] = Key[t] /\ phase[m] \in {"cancelled", "gone"}
    <3>1. PICK m \in Mains : Key[m] = Key[t] /\ phase[m] \in {"cancelled", "gone"} BY Zenon, <2>3
    <3>2. m \in Isolates BY Zenon, BridgeAssumption
    <3>3. Hears(m) BY Zenon, <1>1, <3>2 DEF Living
    <3>4. m \in work.isolates BY Zenon, <3>1, <3>3 DEF Hears
    <3> QED BY Zenon, <3>1, <3>2, <3>4 DEF Ready
  <2> QED BY Zenon, <2>1, <2>2, <2>3 DEF Cancels
<1>7. \A a \in Addresses \cup {Null} :
        /\ ports'[a] \subseteq ports[a]
        /\ \A p \in ports[a] : p[1] # t \/ phase'[t] = "dead" => p \in ports'[a]
  <2>1. CASE Cancels(t)
    <3>1. ports' = [a \in DOMAIN ports |-> {p \in ports[a] : p[1] # t}] BY Zenon, <2>1 DEF Cancels
    <3>2. DOMAIN ports = Addresses \cup {Null} BY Zenon, <1>1 DEF Types, PortTypes
    <3>3. phase'[t] # "dead" BY Zenon, <2>1, <1>1 DEF Cancels, Types, DartTypes
    <3> QED BY Zenon, <3>1, <3>2, <3>3
  <2>2. CASE Dies(t) BY Zenon, <2>2 DEF Dies, portVars
  <2> QED BY Zenon, <2>1, <2>2
<1>8. Bound' BY Zenon, <1>1, <1>2 DEF Bound
<1>9. ASSUME mistaken' = {} PROVE Served'
  <2>1. Served BY Zenon, <1>1, <1>2, <1>9
  <2>2. \A k : Ready(k) => Ready(k)' BY Zenon, <1>2, <1>5, <1>6, ReadyKept
  <2>3. ASSUME NEW u \in Isolates PROVE Calls(u)'
    <3>1. Calls(u) BY Zenon, <2>1 DEF Served
    <3>2. addr[u] \in Addresses \cup {Null} BY Zenon, <1>1 DEF Types, DartTypes
    <3>3. ASSUME phase'[u] \in {"created", "listening", "dead"}, NEW n \in 1 .. heard[u]
          PROVE <<u, n>> \in ports'[addr[u]]
      <4>1. phase[u] \in {"created", "listening", "dead"} /\ (u # t \/ phase'[t] = "dead") BY Zenon, <3>3, <1>5
      <4>2. <<u, n>> \in ports[addr[u]] BY ZenonT(60), <3>1, <4>1 DEF Calls
      <4>3. <<u, n>>[1] = u BY Zenon
      <4> QED BY ZenonT(60), <3>2, <4>1, <4>2, <4>3, <1>7
    <3>4. phase'[u] = "new" => heard[u] = 0 BY Zenon, <3>1, <1>5 DEF Calls
    <3> QED BY Zenon, <3>1, <3>3, <3>4, <1>2, <2>2 DEF Calls, Calling
  <2>4. \A k \in Keys : Loops(k)' BY Zenon, <2>1, <2>2, <1>2 DEF Served, Loops
  <2>5. \A a \in Addresses : \A p \in ports'[a] : p[1] = holder'[a] BY Zenon, <2>1, <1>2, <1>7 DEF Served
  <2> QED BY Zenon, <2>1, <2>3, <2>4, <2>5, <1>2 DEF Served
<1> QED BY Zenon, <1>8, <1>9 DEF StreamsKept

\* A loop emits: its server runs, so the object it has picked has every stream.
LEMMA EmitStreams == ASSUME StreamInv, NEW k \in Keys, EmitPicks(k) \/ Emits(k) PROVE StreamsKept
<1>1. Inv /\ Types /\ Living /\ Bound /\ (mistaken = {} => Served) BY Zenon DEF StreamInv, Inv
<1>2. UNCHANGED <<work, holder, addr, heard, ports, running, emitters, mistaken, phase, pc, op>>
  BY Zenon DEF EmitPicks, Emits, tableVars, dartVars, portVars, callVars, historyVars
<1>3. Bound' BY Zenon, <1>1, <1>2 DEF Bound
<1>4. ASSUME mistaken' = {} PROVE Served'
  <2>1. Served BY Zenon, <1>1, <1>2, <1>4
  <2>2. \A j : Ready(j) => Ready(j)' BY Zenon, <1>2 DEF Ready
  <2>3. \A u \in Isolates : Calls(u)' BY Zenon, <2>1, <2>2, <1>2 DEF Served, Calls, Calling
  <2>4. \A a \in Addresses : \A p \in ports'[a] : p[1] = holder'[a] BY Zenon, <2>1, <1>2 DEF Served
  <2>5. CASE EmitPicks(k)
    <3>1. PICK a \in emitters[k] : emitting' = [emitting EXCEPT ![k] = a] BY Zenon, <2>5 DEF EmitPicks
    <3>2. running[k] /\ UNCHANGED <<unheard, misused>> BY Zenon, <2>5 DEF EmitPicks, historyVars
    <3>3. holder[a] # Nobody /\ Key[holder[a]] = k BY Zenon, <1>1 DEF Bound
    <3>4. emitting'[k] = a /\ \A j \in Keys \ {k} : emitting'[j] = emitting[j]
      BY Zenon, <1>1, <3>1 DEF Types, EngineTypes
    <3>5. ASSUME NEW j \in Keys PROVE Loops(j)' BY ZenonT(60), <2>1, <2>2, <3>2, <3>3, <3>4, <1>2 DEF Served, Loops
    <3> QED BY Zenon, <2>1, <2>3, <2>4, <3>2, <3>5 DEF Served
  <2>6. CASE Emits(k)
    <3> DEFINE a == emitting[k]
               u == holder[a]
    <3>1. a # Null /\ Loops(k) BY Zenon, <2>1, <2>6 DEF Served, Emits
    <3>2. u # Nobody /\ Key[u] = k /\ Ready(k) BY Zenon, <3>1 DEF Loops
    <3>3. a \in Addresses BY Zenon, <1>1, <3>1 DEF Types, EngineTypes
    <3>4. u \in Isolates BY Zenon, <1>1, <3>2, <3>3 DEF Types, TableTypes
    <3>5. addr[u] = a /\ phase[u] \notin {"new", "gone"} /\ Hears(u) BY Zenon, <1>1, <3>2, <3>3, <3>4 DEF Living
    <3> HIDE DEF u, a
    <3>6. phase[u] \in {"listening", "dead"} BY Zenon, <3>2, <3>4, <3>5 DEF Ready, Hears
    <3>7. heard[u] = Streams BY Zenon, <3>5, <3>6 DEF Hears
    <3>8. Calls(u) BY Zenon, <2>1, <3>4 DEF Served
    <3>9. \A n \in 1 .. Streams : <<u, n>> \in ports[a] BY Zenon, <3>5, <3>6, <3>7, <3>8 DEF Calls
    <3>10. ~\E n \in 1 .. Streams : \A p \in ports[a] : p[2] # n
      <4>1. \A n : <<u, n>>[2] = n BY Zenon
      <4> QED BY Zenon, <3>9, <4>1
    <3>11. UNCHANGED <<misused, unheard>> /\ emitting' = [emitting EXCEPT ![k] = Null]
      BY Zenon, <2>6, <3>2, <3>10 DEF Emits, a, u
    <3>12. emitting'[k] = Null /\ \A j \in Keys \ {k} : emitting'[j] = emitting[j]
      BY Zenon, <1>1, <3>11 DEF Types, EngineTypes
    <3>13. ASSUME NEW j \in Keys PROVE Loops(j)' BY ZenonT(60), <2>1, <2>2, <3>12, <1>2 DEF Served, Loops
    <3> QED BY Zenon, <2>1, <2>3, <2>4, <3>11, <3>13 DEF Served
  <2> QED BY Zenon, <2>5, <2>6
<1> QED BY Zenon, <1>3, <1>4 DEF StreamsKept

\* Every step keeps sinks and streams with their objects.
LEMMA StreamStep == ASSUME StreamInv, [BridgeNext]_bridgeVars PROVE StreamInv'
<1>1. Inv' BY Zenon, Step DEF StreamInv
<1>2. ASSUME NEW t \in Isolates, IsolateNext(t) PROVE StreamsKept
  <2>1. CASE CreateMakes(t) BY Zenon, <2>1, CreateMakesStreams
  <2>2. CASE DestroyErases(t) BY Zenon, <2>2, DestroyErasesStreams
  <2>3. CASE \/ CreateInserts(t) \/ Invalidates(t) \/ DestroyReturns(t)
             \/ GetId(t) \/ GetPtr(t) \/ GetLocked(t) \/ GetPublishes(t)
    BY Zenon, <2>3, LookupStreams
  <2>4. CASE \E w \in Exercised \cup {"listen", "start", "stop", "detachEmitter"} : Call(t, w)
    BY Zenon, <2>4, CallStreams
  <2>5. CASE Listens(t) BY Zenon, <2>5, ListensStreams
  <2>6. CASE NotInitialized(t) \/ CallsFreed(t) \/ Refuses(t) BY Zenon, <2>6, RefusedStreams
  <2>7. CASE Does(t) BY Zenon, <2>7, DoesStreams
  <2>8. CASE Cancels(t) \/ Dies(t) BY Zenon, <2>8, LeavesStreams
  <2> QED BY ZenonT(60), <1>2, <2>1, <2>2, <2>3, <2>4, <2>5, <2>6, <2>7, <2>8 DEF IsolateNext
<1>3. ASSUME NEW k \in Keys, EmitPicks(k) \/ Emits(k) PROVE StreamsKept BY Zenon, <1>3, EmitStreams
<1>4. ASSUME UNCHANGED bridgeVars PROVE StreamsKept
  <2>1. UNCHANGED <<tableVars, engineVars, portVars, dartVars, callVars, historyVars>>
    BY Zenon, <1>4 DEF bridgeVars
  <2>2. UNCHANGED <<work, holder, phase, addr, ports, heard, emitters, running, emitting, unheard, misused, mistaken,
                    pc, op>>
    BY Zenon, <2>1 DEF tableVars, engineVars, dartVars, portVars, callVars, historyVars
  <2>3. \A u \in Isolates : (Calling(u) /\ op[u] = "start")' => Calling(u) /\ op[u] = "start"
    BY Zenon, <2>2 DEF Calling
  <2> QED BY Zenon, <2>2, <2>3, QuietStep DEF StreamInv
<1>5. StreamsKept BY Zenon, <1>2, <1>3, <1>4 DEF BridgeNext
<1> QED BY Zenon, <1>1, <1>5 DEF StreamInv, StreamsKept

\* Before any object, no sink and no port.
LEMMA StreamsInitially == ASSUME BridgeInit PROVE StreamInv
<1>1. Inv BY Zenon, Initially
<1>2. Bound BY Zenon DEF BridgeInit, Bound
<1>3. \A t \in Isolates : Calls(t) BY Zenon DEF BridgeInit, Calls, Calling
<1>4. \A k \in Keys : Loops(k) BY Zenon DEF BridgeInit, Loops
<1>5. Served BY Zenon, <1>3, <1>4 DEF BridgeInit, Served
<1> QED BY Zenon, <1>1, <1>2, <1>5 DEF StreamInv

\* As long as no lookup was torn, the sink a loop emits to is a live object of
\* that very server, every event has a subscriber, and the subscriber is the
\* isolate the object belongs to (~HybridNitroServerImpl, _NitroStreamPorts).
THEOREM StreamsAlwaysOwned == BridgeSpec => []StreamsOwned
<1>1. BridgeInit => StreamInv BY Zenon, StreamsInitially
<1>2. StreamInv /\ [BridgeNext]_bridgeVars => StreamInv' BY Zenon, StreamStep
<1>3. StreamInv => StreamsOwned
  <2> HAVE StreamInv
  <2>1. BridgeTypeOK
    BY Zenon DEF StreamInv, Inv, Types, TableTypes, EngineTypes, PortTypes, DartTypes, StepTypes, PastTypes, BridgeTypeOK
  <2>2. HeardByItsOwn BY Zenon DEF StreamInv, Served, HeardByItsOwn
  <2>3. SinkOutlivesEmit
    <3>1. \A k \in Keys : \A a \in emitters[k] : holder[a] # Nobody /\ Key[holder[a]] = k
      BY Zenon DEF StreamInv, Bound
    <3>2. ASSUME mistaken = {} PROVE misused = {} /\ \A k \in Keys : Loops(k)
      BY Zenon, <3>2 DEF StreamInv, Served
    <3>3. ASSUME mistaken = {}, NEW k \in Keys, NEW a \in {emitting[k]} \ {Null}
          PROVE holder[a] # Nobody /\ Key[holder[a]] = k
      BY Zenon, <3>2, <3>3 DEF Loops
    <3> QED BY Zenon, <3>1, <3>2, <3>3 DEF SinkOutlivesEmit
  <2> QED BY Zenon, <2>1, <2>2, <2>3 DEF StreamsOwned
<1> QED BY <1>1, <1>2, <1>3, PTL DEF BridgeSpec
===========================================================================
