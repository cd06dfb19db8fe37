----------------------- MODULE EngineLifecycleProofs -----------------------
(***************************************************************************)
(* Ports and engines stay whole, for every number of isolates, engines and *)
(* ports (PortsExact and WholeOrGone of EngineLifecycle); in the second    *)
(* half, contexts have the references they should.                         *)
(*                                                                         *)
(* Neither of the first two is inductive: what a failed start or a stop    *)
(* gives back is right only because at most one start and one stop of an   *)
(* engine are under way, and a start that meets a stop waits outside the   *)
(* reservation the stop still holds.  Core says so, as long as nothing was *)
(* misused.                                                                *)
(***************************************************************************)
EXTENDS EngineLifecycle, FiniteSetTheorems, TLAPS

Early == {"tls", "reserve"}
Late == {"bind", "loops"}
Ending == {"join", "release"}

Types ==
  /\ holds \in [Isolates -> Engines \cup {None}] /\ toStop \subseteq Engines /\ mapped \subseteq Engines
  /\ pc \in [Isolates -> Steps] /\ on \in [Isolates -> Engines \cup {None}]
  /\ running \in [Engines -> BOOLEAN]
  /\ cfgPort \in [Engines -> Ports \cup {0}] /\ reserved \in [Engines -> Ports \cup {0}]
  /\ loops \in [Engines -> {"none", "up", "stopping", "down"}]
  /\ boundPorts \subseteq Ports
  /\ \A i \in Isolates : pc[i] # "idle" => on[i] \in Engines

Serves(e) == reserved[e] = cfgPort[e] /\ reserved[e] # 0

\* One start, one stop, and no start past its reservation beside a stop.
Apart(i, j) ==
  /\ ~(pc[i] \in Early \cup Late /\ pc[j] \in Early \cup Late)
  /\ ~(pc[i] \in Ending /\ pc[j] \in Ending \cup Late)
Alone == \A i, j \in Isolates : i # j /\ on[i] = on[j] => Apart(i, j)

\* Where a call under way has its engine.
OnTrack(i) ==
  /\ pc[i] \in Early \cup Late => running[on[i]]
  /\ pc[i] \in Late => loops[on[i]] = "none" /\ reserved[on[i]] = cfgPort[on[i]]
  /\ pc[i] = "loops" => reserved[on[i]] # 0
  /\ pc[i] = "join" => loops[on[i]] \in {"stopping", "down"} /\ Serves(on[i])
  /\ pc[i] = "release" => loops[on[i]] = "none" /\ Serves(on[i])
Underway == \A i \in Isolates : OnTrack(i)

Held(e) == \E i \in Isolates : on[i] = e /\ pc[i] \in Late \cup Ending
Begins(e) == \E i \in Isolates : on[i] = e /\ pc[i] \in Early
\* Where an engine is that no call has got hold of.
Free(e) ==
  \/ loops[e] = "up" /\ Serves(e) /\ running[e] /\ ~Begins(e)
  \/ loops[e] = "none" /\ reserved[e] = 0 /\ (running[e] => Begins(e))
Rests(e) ==
  /\ ~Held(e) => Free(e)
  /\ Held(e) /\ running[e] => \E i \in Isolates : on[i] = e /\ pc[i] \in Early \cup Late
Resting == \A e \in Engines : Rests(e)

Core == Alone /\ Underway /\ Resting
Inv == Types /\ PortsExact /\ WholeOrGone /\ (Defined => Core)

\* What the steps read and change of all this.
ownVars == <<running, cfgPort, reserved, loops, boundPorts>>
Under == Early \cup Late \cup Ending

\* At rest an engine is whole or gone, whatever the calls on it are about (after
\* a step, where it is needed).
LEMMA CoreIsWhole == ASSUME Types', Core' PROVE WholeOrGone'
<1> SUFFICES ASSUME NEW e \in Engines, ~Busy(e)'
             PROVE (IF running[e] THEN loops[e] = "up" ELSE loops[e] = "none" /\ reserved[e] = 0)'
    BY Zenon DEF WholeOrGone
<1>1. ~Held(e)' /\ ~Begins(e)'
  BY Zenon DEF Busy, Held, Begins, Steps, Early, Late, Ending
<1> QED BY Zenon, <1>1 DEF Core, Resting, Rests, Free

\* A step that leaves the engines alone and moves no call into or out of start
\* and stop keeps all of it.
LEMMA Frame ==
  ASSUME Types, PortsExact, Core, Types', UNCHANGED ownVars,
         \A j \in Isolates : pc[j] \in Under \/ pc'[j] \in Under => pc'[j] = pc[j] /\ on'[j] = on[j]
  PROVE Inv'
<1> USE DEF Under
<1>1. PortsExact' BY Zenon DEF PortsExact, ownVars
<1>2. \A j \in Isolates : /\ pc'[j] \in Under <=> pc[j] \in Under
                          /\ pc[j] \in Under => pc'[j] = pc[j] /\ on'[j] = on[j]
  BY Zenon
<1>3. Alone' BY ZenonT(60), <1>2 DEF Core, Alone, Apart, Early, Late, Ending
<1>4. Underway' BY <1>2 DEF Core, Underway, OnTrack, Early, Late, Ending, ownVars, Serves
<1>5. \A e \in Engines : (Held(e)' <=> Held(e)) /\ (Begins(e)' <=> Begins(e))
  BY Zenon, <1>2 DEF Held, Begins, Early, Late, Ending
<1>6. ASSUME NEW e \in Engines, \E i \in Isolates : on[i] = e /\ pc[i] \in Early \cup Late
      PROVE \E i \in Isolates : on'[i] = e /\ pc'[i] \in Early \cup Late
  BY Zenon, <1>2, <1>6 DEF Early, Late, Ending
<1>7. Resting' BY Zenon, <1>5, <1>6 DEF Core, Resting, Rests, Free, ownVars, Serves
<1>8. Core' BY Zenon, <1>3, <1>4, <1>7 DEF Core
<1>9. WholeOrGone' BY Zenon, <1>8, CoreIsWhole
<1> QED BY Zenon, <1>1, <1>8, <1>9 DEF Inv

\* A step of one call about one engine keeps it if that engine and that call
\* are in order afterwards.
LEMMA OneEngine ==
  ASSUME Types, Core, Types', NEW i \in Isolates, NEW e \in Engines,
         on'[i] = e, pc[i] \in Under => on[i] = e,
         \A j \in Isolates \ {i} : pc'[j] = pc[j] /\ on'[j] = on[j],
         \A f \in Engines \ {e} : /\ running'[f] = running[f] /\ cfgPort'[f] = cfgPort[f]
                                  /\ reserved'[f] = reserved[f] /\ loops'[f] = loops[f],
         \A j \in Isolates \ {i} : on[j] = e => Apart(i, j)' /\ Apart(j, i)',
         \A j \in Isolates : on'[j] = e => OnTrack(j)',
         Rests(e)'
  PROVE Core'
<1>1. Alone'
  <2> SUFFICES ASSUME NEW j \in Isolates, NEW h \in Isolates, j # h, on'[j] = on'[h] PROVE Apart(j, h)'
      BY Zenon DEF Alone
  <2>1. CASE j = i BY Zenon, <2>1
  <2>2. CASE h = i BY Zenon, <2>2
  <2>3. CASE j # i /\ h # i BY ZenonT(60), <2>3 DEF Core, Alone, Apart
  <2> QED BY Zenon, <2>1, <2>2, <2>3
<1>2. Underway'
  <2> SUFFICES ASSUME NEW j \in Isolates, on'[j] # e PROVE OnTrack(j)'
      BY Zenon DEF Underway
  <2>1. j # i /\ pc'[j] = pc[j] /\ on'[j] = on[j] /\ OnTrack(j) BY Zenon DEF Core, Underway
  <2>2. CASE pc[j] \notin Under BY Zenon, <2>1, <2>2 DEF OnTrack, Under, Early, Late, Ending
  <2>3. CASE pc[j] \in Under
    <3>1. on[j] \in Engines \ {e} BY Zenon, <2>1, <2>3, ZenonT(30) DEF Types, Under, Early, Late, Ending
    <3> QED BY <2>1, <3>1 DEF OnTrack, Serves
  <2> QED BY Zenon, <2>2, <2>3
<1>3. Resting'
  <2> SUFFICES ASSUME NEW f \in Engines \ {e} PROVE Rests(f)'
      BY Zenon DEF Resting
  <2>1. \A j \in Isolates : \/ on[j] = f /\ on'[j] = f /\ pc'[j] = pc[j]
                            \/ on[j] # f /\ on'[j] # f
                            \/ pc[j] \notin Under /\ on'[j] # f
    BY Zenon
  <2> QED BY <2>1 DEF Core, Resting, Rests, Held, Begins, Free, Serves, Under
<1> QED BY Zenon, <1>1, <1>2, <1>3 DEF Core

-----------------------------------------------------------------------------
\* Every step keeps the types, of the caller it is about above all.
LEMMA TypesStep == ASSUME Types, Next PROVE Types'
<1> USE LifecycleAssumption DEF Types, Steps, Goes, Calls
<1>1. ASSUME NEW i \in Isolates, NEW e \in Engines, Resolve(i, e) PROVE Types'
  BY Zenon, <1>1 DEF Resolve, engineVars
<1>2. ASSUME NEW i \in Isolates, ResetAll(i) PROVE Types'
  BY Zenon, <1>2 DEF ResetAll, callVars, engineVars
<1>3. ASSUME NEW i \in Isolates, ResetStep(i) PROVE Types'
  BY <1>3 DEF ResetStep, ResetEnds, ResetStops, callVars, engineVars
<1>4. ASSUME NEW i \in Isolates, Starts(i) \/ Stops(i) \/ Reloads(i) \/ Responds(i) PROVE Types'
  <2>1. CASE Starts(i) BY Zenon, <2>1 DEF Starts, registryVars, engineVars
  <2>2. CASE Stops(i) BY Zenon, <2>2 DEF Stops, registryVars, engineVars
  <2>3. CASE Reloads(i) BY Zenon, <2>3 DEF Reloads, registryVars, engineVars
  <2>4. CASE Responds(i) BY Zenon, <2>4 DEF Responds, registryVars, engineVars
  <2> QED BY Zenon, <1>4, <2>1, <2>2, <2>3, <2>4
<1>5. ASSUME NEW i \in Isolates, StartStep(i) PROVE Types'
  <2>1. CASE StartSetsUpTls(i) BY ZenonT(60), <2>1 DEF StartSetsUpTls, registryVars
  <2>2. CASE StartReserves(i)
    <3> USE <2>2 DEF StartReserves, registryVars
    <3>1. on[i] \in Engines BY Zenon
    <3>2. CASE cfgPort[on[i]] \in boundPorts BY ZenonT(60), <3>1, <3>2
    <3>3. CASE cfgPort[on[i]] \notin boundPorts /\ cfgPort[on[i]] = 0 BY ZenonT(60), <3>1, <3>3
    <3>4. CASE cfgPort[on[i]] \notin boundPorts /\ cfgPort[on[i]] # 0 BY <3>1, <3>4
    <3> QED BY Zenon, <3>2, <3>3, <3>4
  <2>3. CASE StartBinds(i) BY <2>3 DEF StartBinds, registryVars
  <2>4. CASE StartFails(i) BY Zenon, <2>4 DEF StartFails, registryVars
  <2>5. CASE StartLoops(i) BY Zenon, <2>5 DEF StartLoops, registryVars
  <2> QED BY Zenon, <1>5, <2>1, <2>2, <2>3, <2>4, <2>5 DEF StartStep
<1>6. ASSUME NEW i \in Isolates, StopStep(i) PROVE Types'
  <2>1. CASE StopClaims(i) BY Zenon, <2>1 DEF StopClaims, registryVars
  <2>2. CASE StopJoins(i) BY Zenon, <2>2 DEF StopJoins, registryVars
  <2>3. CASE StopReleases(i) BY Zenon, <2>3 DEF StopReleases, registryVars
  <2> QED BY Zenon, <1>6, <2>1, <2>2, <2>3 DEF StopStep
<1>7. ASSUME NEW i \in Isolates, BeginDrain(i) PROVE Types'
  BY Zenon, <1>7 DEF BeginDrain, registryVars, callVars
<1>8. ASSUME NEW i \in Isolates, ReloadBuilds(i) \/ ReloadSwaps(i) PROVE Types'
  BY <1>8 DEF ReloadBuilds, ReloadSwaps, registryVars, engineVars
<1>9. ASSUME NEW i \in Isolates, RespondLooks(i) \/ RespondPushes(i) PROVE Types'
  BY ZenonT(60), <1>9 DEF RespondLooks, RespondPushes, registryVars, engineVars
<1>10. ASSUME NEW e \in Engines, LoopEnds(e) PROVE Types'
  BY Zenon, <1>10 DEF LoopEnds, registryVars, callVars
<1>11. ASSUME NEW e \in Engines, NEW k \in Conns, Accepts(e, k) PROVE Types'
  BY Zenon, <1>11 DEF Accepts, registryVars, callVars, engineVars
<1>12. ASSUME NEW k \in Conns, TlsInit(k) \/ Dispatches(k) \/ CloseConn(k) PROVE Types'
  BY ZenonT(60), <1>12 DEF TlsInit, Dispatches, CloseConn, registryVars, callVars, engineVars
<1> QED
  BY Zenon, <1>1, <1>2, <1>3, <1>4, <1>5, <1>6, <1>7, <1>8, <1>9, <1>10, <1>11, <1>12 DEF Next

\* The steps that start and stop nothing.
LEMMA OtherSteps ==
  ASSUME Types, PortsExact, Core, Types',
         \/ \E i \in Isolates : \/ \E e \in Engines : Resolve(i, e)
                                \/ ResetAll(i) \/ ResetStep(i) \/ Stops(i) \/ BeginDrain(i)
                                \/ Reloads(i) \/ ReloadBuilds(i) \/ ReloadSwaps(i)
                                \/ Responds(i) \/ RespondLooks(i) \/ RespondPushes(i)
         \/ \E e \in Engines, k \in Conns : Accepts(e, k)
         \/ \E k \in Conns : TlsInit(k) \/ Dispatches(k) \/ CloseConn(k)
  PROVE Inv'
<1> USE DEF Types, Goes, Calls, Steps
<1> DEFINE Moves(i) == \A j \in Isolates \ {i} : pc'[j] = pc[j] /\ on'[j] = on[j]
           Same == UNCHANGED ownVars
<1>1. ASSUME NEW i \in Isolates,
             \/ \E e \in Engines : Resolve(i, e)
             \/ ResetAll(i) \/ BeginDrain(i) \/ ResetEnds(i)
      PROVE Same /\ UNCHANGED <<pc, on>>
  BY Zenon, <1>1 DEF Resolve, ResetAll, BeginDrain, ResetEnds, ownVars, engineVars, callVars
<1>2. ASSUME NEW i \in Isolates, \/ \E e \in Engines : ResetStops(i, e)
                                 \/ Stops(i) \/ Reloads(i) \/ Responds(i)
      PROVE Same /\ Moves(i) /\ pc[i] \notin Under /\ pc'[i] \notin Under
  <2> USE DEF ownVars, engineVars, Under, Early, Late, Ending
  <2>1. CASE \E e \in Engines : ResetStops(i, e) BY <2>1, ZenonT(60) DEF ResetStops
  <2>2. CASE Stops(i) BY Zenon, <2>2, ZenonT(30) DEF Stops
  <2>3. CASE Reloads(i) BY ZenonT(60), <2>3 DEF Reloads
  <2>4. CASE Responds(i) BY ZenonT(60), <2>4 DEF Responds
  <2> QED BY Zenon, <1>2, <2>1, <2>2, <2>3, <2>4
<1>3. ASSUME NEW i \in Isolates, ReloadBuilds(i) \/ RespondLooks(i) \/ RespondPushes(i)
      PROVE Same /\ Moves(i) /\ pc[i] \notin Under /\ pc'[i] \notin Under
  BY <1>3, ZenonT(60) DEF ReloadBuilds, RespondLooks, RespondPushes, ownVars, engineVars, Under,
       Early, Late, Ending
<1>4. ASSUME NEW i \in Isolates, ReloadSwaps(i)
      PROVE Same /\ Moves(i) /\ pc[i] \notin Under /\ pc'[i] \notin Under
  BY Zenon, <1>4 DEF ReloadSwaps, ownVars, Under, Early, Late, Ending
<1>5. ASSUME \/ \E e \in Engines, k \in Conns : Accepts(e, k)
             \/ \E k \in Conns : TlsInit(k) \/ Dispatches(k) \/ CloseConn(k)
      PROVE Same /\ UNCHANGED <<pc, on>>
  BY Zenon, <1>5 DEF Accepts, TlsInit, Dispatches, CloseConn, ownVars, engineVars, callVars
<1>6. Same /\ \A j \in Isolates : pc[j] \in Under \/ pc'[j] \in Under => pc'[j] = pc[j] /\ on'[j] = on[j]
  <2> HIDE DEF Same, Types, Goes, Calls, Steps
  <2>1. \/ Same /\ UNCHANGED <<pc, on>>
        \/ \E i \in Isolates : Same /\ Moves(i) /\ pc[i] \notin Under /\ pc'[i] \notin Under
    <3> HIDE DEF Moves
    <3> QED BY Zenon, <1>1, <1>2, <1>3, <1>4, <1>5 DEF ResetStep
  <2> QED BY Zenon, <2>1
<1> HIDE DEF Types, Goes, Calls, Steps
<1> QED BY Zenon, <1>6, Frame

\* A call that is not about to start or stop has nothing to be in order.
LEMMA Elsewhere ==
  ASSUME NEW j \in Isolates, pc'[j] \notin Early \cup Late \cup Ending
  PROVE OnTrack(j)'
BY Zenon DEF OnTrack, Early, Late, Ending

\* A call that goes on elsewhere on the same engine stays in order, if it does
\* not rely on a flag that changed.
LEMMA StaysOnTrack ==
  ASSUME NEW j \in Isolates, pc'[j] = pc[j], on'[j] = on[j], OnTrack(j), UNCHANGED <<loops, reserved, cfgPort>>,
         pc[j] \in Early \cup Late => running'[on[j]]
  PROVE OnTrack(j)'
BY Zenon DEF OnTrack, Serves, Early, Late, Ending

\* Ports stay exact when nothing about them changes.
LEMMA PortsStay ==
  ASSUME PortsExact, UNCHANGED <<loops, reserved, cfgPort, boundPorts>>
  PROVE PortsExact'
BY ZenonT(60) DEF PortsExact

-----------------------------------------------------------------------------
\* start().  It claims an engine nobody else starts.
LEMMA StartsStep ==
  ASSUME Types, PortsExact, Core, Types', NEW i \in Isolates, Starts(i)
  PROVE PortsExact' /\ Core'
<1> USE LifecycleAssumption DEF Starts, Calls, Goes, Early, Late, Ending
<1>1. PICK e \in Engines : e = holds[i] BY ZenonT(60) DEF Types
<1>2. /\ pc[i] = "idle" /\ ~running[e] /\ on'[i] = e /\ pc'[i] = "tls"
      /\ \A j \in Isolates \ {i} : pc'[j] = pc[j] /\ on'[j] = on[j]
      /\ running' = [running EXCEPT ![e] = TRUE] /\ UNCHANGED <<cfgPort, reserved, loops, boundPorts>>
  BY <1>1 DEF Types
<1> HIDE DEF Starts, Calls, Goes
<1>3. running'[e] /\ \A f \in Engines \ {e} : running'[f] = running[f]
  BY Zenon, <1>2 DEF Types
<1>4. \A j \in Isolates : on[j] = e => pc[j] \notin Early \cup Late
  BY Zenon, <1>2, ZenonT(60) DEF Core, Underway, OnTrack
<1>5. \A j \in Isolates \ {i} : on[j] = e => Apart(i, j)' /\ Apart(j, i)'
  BY Zenon, <1>2, <1>4 DEF Apart
<1>6. ASSUME NEW j \in Isolates, on'[j] = e PROVE OnTrack(j)'
  <2>1. CASE j = i BY Zenon, <1>2, <1>3, <2>1 DEF OnTrack
  <2>2. CASE j # i
    <3>1. on[j] = e /\ on'[j] = on[j] /\ pc'[j] = pc[j] BY Zenon, <1>2, <1>6, <2>2
    <3> QED BY Zenon, <1>2, <1>3, <3>1, StaysOnTrack DEF Core, Underway
  <2> QED BY Zenon, <2>1, <2>2
<1>7. Rests(e)'
  <2>1. Begins(e)' /\ \E j \in Isolates : on'[j] = e /\ pc'[j] \in Early \cup Late
    BY Zenon, <1>2 DEF Begins
  <2>2. Held(e) => Held(e)' BY Zenon, <1>2 DEF Held
  <2>3. ~Held(e) => loops[e] = "none" /\ reserved[e] = 0
    BY Zenon, <1>2 DEF Core, Resting, Rests, Free
  <2> QED BY Zenon, <1>2, <2>1, <2>2, <2>3 DEF Rests, Free
<1>8. Core' BY Zenon, <1>2, <1>3, <1>5, <1>6, <1>7, OneEngine, ZenonT(60) DEF Under
<1> QED BY Zenon, <1>2, <1>8, PortsStay

\* setupTls and the reservation: before it the engine has no loops and no port
\* of its own, unless a stop still holds them.
LEMMA EarlySteps ==
  ASSUME Types, PortsExact, Core, Types', NEW i \in Isolates, StartSetsUpTls(i) \/ StartReserves(i)
  PROVE PortsExact' /\ Core'
<1> USE LifecycleAssumption DEF Goes, Early, Late, Ending
<1>1. PICK e \in Engines : e = on[i] BY ZenonT(30) DEF StartSetsUpTls, StartReserves, Types
<1>2. /\ on[i] = e /\ pc[i] \in Early /\ on'[i] = e /\ running[e]
      /\ pc' = [pc EXCEPT ![i] = pc'[i]]
      /\ \A j \in Isolates \ {i} : pc'[j] = pc[j] /\ on'[j] = on[j]
      /\ UNCHANGED <<cfgPort, loops>>
  BY <1>1 DEF StartSetsUpTls, StartReserves, Types, Core, Underway, OnTrack
<1>3. \/ pc'[i] = "reserve" /\ UNCHANGED <<running, reserved, boundPorts>>
      \/ pc'[i] = "idle" /\ running' = [running EXCEPT ![e] = FALSE] /\ UNCHANGED <<reserved, boundPorts>>
      \/ /\ pc'[i] = "bind" /\ UNCHANGED running /\ cfgPort[e] \notin boundPorts
         /\ boundPorts' = boundPorts \cup ({cfgPort[e]} \ {0})
         /\ reserved' = IF cfgPort[e] = 0 THEN reserved ELSE [reserved EXCEPT ![e] = cfgPort[e]]
  BY <1>1 DEF StartSetsUpTls, StartReserves, Types
<1> HIDE DEF Goes
<1>4. \A j \in Isolates \ {i} : on[j] = e => pc[j] \notin Early \cup Late
  BY Zenon, <1>2, ZenonT(60) DEF Core, Alone, Apart
<1>4a. ~Held(e) => loops[e] = "none" /\ reserved[e] = 0
  <2>1. Begins(e) BY Zenon, <1>2 DEF Begins
  <2> QED BY Zenon, <2>1 DEF Core, Resting, Rests, Free
<1>5. CASE pc'[i] = "reserve" /\ UNCHANGED <<running, reserved, boundPorts>>
  <2>1. \A j \in Isolates \ {i} : on[j] = e => Apart(i, j)' /\ Apart(j, i)'
    BY Zenon, <1>2, <1>4, <1>5, ZenonT(30) DEF Apart
  <2>2. ASSUME NEW j \in Isolates, on'[j] = e PROVE OnTrack(j)'
    <3>1. CASE j = i BY Zenon, <1>2, <1>5, <3>1 DEF OnTrack
    <3>2. CASE j # i
      <4>1. on[j] = e /\ on'[j] = on[j] /\ pc'[j] = pc[j] BY Zenon, <1>2, <2>2, <3>2
      <4> QED BY Zenon, <1>2, <1>5, <4>1, StaysOnTrack DEF Core, Underway
    <3> QED BY Zenon, <3>1, <3>2
  <2>3. Rests(e)'
    <3>1. Begins(e)' /\ \E j \in Isolates : on'[j] = e /\ pc'[j] \in Early \cup Late
      BY Zenon, <1>2, <1>5 DEF Begins
    <3>2. Held(e) => Held(e)' BY Zenon, <1>2 DEF Held
    <3> QED BY Zenon, <1>2, <1>5, <1>4a, <3>1, <3>2 DEF Rests, Free
  <2>4. Core' BY Zenon, <1>2, <1>5, <2>1, <2>2, <2>3, OneEngine, ZenonT(30) DEF Under
  <2> QED BY Zenon, <1>2, <1>5, <2>4, PortsStay
<1>6. CASE pc'[i] = "idle" /\ running' = [running EXCEPT ![e] = FALSE] /\ UNCHANGED <<reserved, boundPorts>>
  <2>1. ~running'[e] /\ \A f \in Engines \ {e} : running'[f] = running[f]
    BY ZenonT(60), <1>2, <1>6 DEF Types
  <2>2. \A j \in Isolates \ {i} : on[j] = e => Apart(i, j)' /\ Apart(j, i)'
    BY Zenon, <1>2, <1>6, ZenonT(30) DEF Apart
  <2>3. ASSUME NEW j \in Isolates, on'[j] = e PROVE OnTrack(j)'
    <3>1. CASE j = i BY Zenon, <1>6, <3>1, Elsewhere
    <3>2. CASE j # i
      <4>1. on[j] = e /\ on'[j] = on[j] /\ pc'[j] = pc[j] BY Zenon, <1>2, <2>3, <3>2, ZenonT(60)
      <4> QED BY Zenon, <1>2, <1>4, <1>6, <3>2, <4>1, StaysOnTrack DEF Core, Underway
    <3> QED BY Zenon, <3>1, <3>2
  <2>4. Rests(e)'
    <3>1. Held(e) => Held(e)' BY Zenon, <1>2 DEF Held
    <3> QED BY Zenon, <1>2, <1>6, <1>4a, <2>1, <3>1 DEF Rests, Free
  <2>5. Core' BY Zenon, <1>2, <1>6, <2>1, <2>2, <2>3, <2>4, OneEngine, ZenonT(30) DEF Under
  <2> QED BY Zenon, <1>2, <1>6, <2>5, PortsStay
<1>7. CASE /\ pc'[i] = "bind" /\ UNCHANGED running /\ cfgPort[e] \notin boundPorts
           /\ boundPorts' = boundPorts \cup ({cfgPort[e]} \ {0})
           /\ reserved' = IF cfgPort[e] = 0 THEN reserved ELSE [reserved EXCEPT ![e] = cfgPort[e]]
  <2>1. \A j \in Isolates \ {i} : on[j] = e => pc[j] \notin Ending
    <3> SUFFICES ASSUME NEW j \in Isolates \ {i}, on[j] = e, pc[j] \in Ending PROVE FALSE
        BY Zenon
    <3>1. reserved[e] = cfgPort[e] /\ reserved[e] # 0 BY Zenon DEF Core, Underway, OnTrack, Serves
    <3>2. reserved[e] \in boundPorts BY Zenon, <1>2, <3>1 DEF PortsExact
    <3> QED BY Zenon, <1>7, <3>1, <3>2, ZenonT(30)
  <2>2. ~Held(e) /\ Begins(e) BY Zenon, <1>2, <1>4, <2>1 DEF Held, Begins
  <2>3. loops[e] = "none" /\ reserved[e] = 0 BY Zenon, <1>2, <2>2, ZenonT(60) DEF Core, Resting, Rests, Free
  <2>4. reserved'[e] = cfgPort[e] /\ \A f \in Engines \ {e} : reserved'[f] = reserved[f]
    BY ZenonT(60), <1>2, <1>7, <2>3 DEF Types
  <2>5. \A j \in Isolates \ {i} : on[j] = e => Apart(i, j)' /\ Apart(j, i)'
    BY Zenon, <1>2, <1>4, <1>7, <2>1, ZenonT(30) DEF Apart
  <2>6. ASSUME NEW j \in Isolates, on'[j] = e PROVE OnTrack(j)'
    <3>1. CASE j = i BY ZenonT(60), <1>2, <1>7, <2>3, <2>4, <3>1 DEF OnTrack
    <3>2. CASE j # i
      <4>1. pc'[j] \notin Early \cup Late \cup Ending BY Zenon, <1>2, <1>4, <2>1, <2>6, <3>2
      <4> QED BY Zenon, <4>1, Elsewhere
    <3> QED BY Zenon, <3>1, <3>2
  <2>7. Rests(e)'
    BY Zenon, <1>2, <1>7 DEF Rests, Held
  <2>8. Core' BY Zenon, <1>2, <1>7, <2>4, <2>5, <2>6, <2>7, OneEngine, ZenonT(30) DEF Under
  <2>9. PortsExact'
    <3>1. \A f \in Engines \ {e} : reserved[f] = cfgPort[e] => reserved[f] = 0
      BY Zenon, <1>7, ZenonT(30) DEF PortsExact
    <3>2. boundPorts' = {reserved'[f] : f \in Engines} \ {0}
      <4>1. boundPorts = {reserved[f] : f \in Engines} \ {0} BY Zenon DEF PortsExact
      <4>2. boundPorts' \subseteq {reserved'[f] : f \in Engines} \ {0} BY ZenonT(60), <1>7, <2>3, <2>4, <4>1
      <4>3. \A f \in Engines : reserved'[f] # 0 => reserved'[f] \in boundPorts' BY <1>7, <2>4, <4>1
      <4> QED BY Zenon, <4>2, <4>3
    <3>3. \A f, g \in Engines : f # g /\ reserved'[f] = reserved'[g] => reserved'[f] = 0
      BY <1>2, <2>4, <3>1 DEF PortsExact
    <3>4. \A f \in Engines : loops'[f] = "up" => reserved'[f] = cfgPort'[f]
      BY ZenonT(60), <1>2, <2>4 DEF PortsExact
    <3> QED BY Zenon, <3>2, <3>3, <3>4 DEF PortsExact
  <2> QED BY Zenon, <2>8, <2>9
<1> QED BY Zenon, <1>3, <1>5, <1>6, <1>7

\* Where a start past its reservation stands: alone, without loops.
LEMMA LateStands ==
  ASSUME Types, Core, NEW i \in Isolates, pc[i] \in Late
  PROVE /\ on[i] \in Engines /\ running[on[i]] /\ loops[on[i]] = "none" /\ reserved[on[i]] = cfgPort[on[i]]
        /\ pc[i] = "loops" => reserved[on[i]] # 0
        /\ \A j \in Isolates \ {i} : on[j] = on[i] => pc[j] \notin Early \cup Late \cup Ending
BY Zenon DEF Types, Core, Alone, Apart, Underway, OnTrack, Early, Late, Ending

\* Phase one binds the port that was reserved, or reserves the one it got.
LEMMA BindsStep ==
  ASSUME Types, PortsExact, Core, Types', NEW i \in Isolates, StartBinds(i)
  PROVE PortsExact' /\ Core'
<1> USE LifecycleAssumption DEF Early, Late, Ending
<1>1. PICK e \in Engines : e = on[i] BY Zenon, LateStands DEF StartBinds
<1>2. /\ pc[i] = "bind" /\ pc'[i] = "loops" /\ on[i] = e /\ on'[i] = e
      /\ \A j \in Isolates \ {i} : pc'[j] = pc[j] /\ on'[j] = on[j]
      /\ UNCHANGED <<running, loops>>
  BY ZenonT(60), <1>1 DEF StartBinds, Goes, Types
<1>3. /\ running[e] /\ loops[e] = "none" /\ reserved[e] = cfgPort[e]
      /\ \A j \in Isolates \ {i} : on[j] = e => pc[j] \notin Early \cup Late \cup Ending
  BY Zenon, <1>2, LateStands, ZenonT(60)
<1>4. PICK p \in Ports : /\ IF cfgPort[e] = 0 THEN p \notin boundPorts ELSE p = cfgPort[e]
                         /\ cfgPort' = [cfgPort EXCEPT ![e] = p]
                         /\ IF reserved[e] = 0
                            THEN reserved' = [reserved EXCEPT ![e] = p] /\ boundPorts' = boundPorts \cup {p}
                            ELSE UNCHANGED <<reserved, boundPorts>>
  BY Zenon, <1>1 DEF StartBinds
<1>5. /\ p # 0 /\ cfgPort'[e] = p /\ reserved'[e] = p /\ boundPorts' = boundPorts \cup {p}
      /\ \A f \in Engines \ {e} : cfgPort'[f] = cfgPort[f] /\ reserved'[f] = reserved[f]
  <2>1. DOMAIN cfgPort = Engines /\ DOMAIN reserved = Engines BY Zenon DEF Types
  <2>2. p # 0 /\ cfgPort'[e] = p /\ \A f \in Engines \ {e} : cfgPort'[f] = cfgPort[f] BY Zenon, <1>4, <2>1
  <2>3. CASE reserved[e] = 0 BY Zenon, <1>4, <2>1, <2>2, <2>3
  <2>4. CASE reserved[e] # 0
    <3>1. reserved[e] \in boundPorts BY Zenon, <2>4 DEF PortsExact
    <3>2. p = reserved[e] /\ UNCHANGED <<reserved, boundPorts>> BY Zenon, <1>3, <1>4, <2>4
    <3> QED BY Zenon, <2>2, <3>1, <3>2
  <2> QED BY Zenon, <2>3, <2>4
<1>6. \A j \in Isolates \ {i} : on[j] = e => Apart(i, j)' /\ Apart(j, i)'
  BY Zenon, <1>2, <1>3 DEF Apart
<1>7. \A j \in Isolates : on'[j] = e => OnTrack(j)'
  <2>1. OnTrack(i)' BY ZenonT(60), <1>2, <1>3, <1>5 DEF OnTrack
  <2>2. ASSUME NEW j \in Isolates \ {i}, on'[j] = e PROVE OnTrack(j)'
    <3>1. pc'[j] \notin Early \cup Late \cup Ending BY Zenon, <1>2, <1>3, <2>2
    <3> QED BY Zenon, <3>1, Elsewhere
  <2> QED BY Zenon, <2>1, <2>2
<1>8. Rests(e)' BY Zenon, <1>2, ZenonT(30) DEF Rests, Held
<1>9. Core' BY Zenon, <1>2, <1>5, <1>6, <1>7, <1>8, OneEngine, ZenonT(30) DEF Under
<1>10. ASSUME NEW f \in Engines \ {e}, reserved[f] = p PROVE FALSE
  <2>1. reserved[f] \in boundPorts BY Zenon, <1>5, <1>10 DEF PortsExact
  <2>2. reserved[e] = p /\ p # 0 BY Zenon, <1>3, <1>4, <1>5, <1>10, <2>1
  <2> QED BY Zenon, <1>10, <2>2 DEF PortsExact
<1>11. boundPorts' = {reserved'[f] : f \in Engines} \ {0}
  <2>1. boundPorts = {reserved[f] : f \in Engines} \ {0} BY Zenon DEF PortsExact
  <2>2. reserved[e] = 0 \/ reserved[e] = p BY Zenon, <1>3, <1>4
  <2>3. boundPorts' \subseteq {reserved'[f] : f \in Engines} \ {0} BY ZenonT(60), <1>5, <2>1, <2>2
  <2>4. \A f \in Engines : reserved'[f] # 0 => reserved'[f] \in boundPorts' BY Zenon, <1>5, <2>1
  <2> QED BY Zenon, <2>3, <2>4
<1>12. \A f, g \in Engines : f # g /\ reserved'[f] = reserved'[g] => reserved'[f] = 0
  BY <1>5, <1>10, ZenonT(60) DEF PortsExact
<1>13. \A f \in Engines : loops'[f] = "up" => reserved'[f] = cfgPort'[f]
  BY Zenon, <1>2, <1>5, ZenonT(30) DEF PortsExact
<1> QED BY Zenon, <1>9, <1>11, <1>12, <1>13, ZenonT(60) DEF PortsExact

\* Giving a reservation back takes exactly that port out.
LEMMA GivenBack ==
  ASSUME Types, PortsExact, Types', NEW e \in Engines, loops'[e] # "up", UNCHANGED cfgPort,
         boundPorts' = boundPorts \ {reserved[e]}, reserved' = [reserved EXCEPT ![e] = 0],
         \A f \in Engines \ {e} : loops'[f] = loops[f]
  PROVE PortsExact' /\ reserved'[e] = 0 /\ \A f \in Engines \ {e} : reserved'[f] = reserved[f]
<1>1. reserved'[e] = 0 /\ \A f \in Engines \ {e} : reserved'[f] = reserved[f]
  BY Zenon DEF Types
<1>2. boundPorts' = {reserved'[f] : f \in Engines} \ {0}
  <2>1. ASSUME NEW q \in boundPorts' PROVE q \in {reserved'[f] : f \in Engines} \ {0}
    <3>1. PICK f \in Engines : q = reserved[f] /\ q # 0 BY Zenon, <2>1 DEF PortsExact
    <3>2. f # e BY Zenon, <2>1, <3>1
    <3> QED BY Zenon, <1>1, <3>1, <3>2
  <2>2. ASSUME NEW f \in Engines, reserved'[f] # 0 PROVE reserved'[f] \in boundPorts'
    <3>1. f # e /\ reserved'[f] = reserved[f] /\ reserved[f] \in boundPorts
      BY Zenon, <1>1, <2>2 DEF PortsExact
    <3>2. reserved[f] # reserved[e] BY Zenon, <2>2, <3>1 DEF PortsExact
    <3> QED BY <3>1, <3>2
  <2> QED BY ZenonT(60), <2>1, <2>2
<1>3. \A f, g \in Engines : f # g /\ reserved'[f] = reserved'[g] => reserved'[f] = 0
  BY <1>1 DEF PortsExact
<1>4. \A f \in Engines : loops'[f] = "up" => reserved'[f] = cfgPort'[f]
  BY Zenon, <1>1 DEF PortsExact
<1> QED BY Zenon, <1>1, <1>2, <1>3, <1>4 DEF PortsExact

\* releaseAndFail leaves the engine as if it had not been started.
LEMMA FailsStep ==
  ASSUME Types, PortsExact, Core, Types', NEW i \in Isolates, StartFails(i)
  PROVE PortsExact' /\ Core'
<1> USE DEF Early, Late, Ending
<1>1. PICK e \in Engines : e = on[i] BY Zenon, LateStands DEF StartFails
<1>2. /\ pc[i] \in Late /\ pc'[i] = "idle" /\ on[i] = e /\ on'[i] = e
      /\ \A j \in Isolates \ {i} : pc'[j] = pc[j] /\ on'[j] = on[j]
      /\ UNCHANGED <<loops, cfgPort>> /\ running' = [running EXCEPT ![e] = FALSE]
      /\ boundPorts' = boundPorts \ {reserved[e]} /\ reserved' = [reserved EXCEPT ![e] = 0]
  BY Zenon, <1>1, ZenonT(30) DEF StartFails, Goes, Types
<1>3. /\ loops[e] = "none"
      /\ \A j \in Isolates \ {i} : on[j] = e => pc[j] \notin Early \cup Late \cup Ending
  BY Zenon, <1>2, LateStands, ZenonT(60)
<1>4. ~running'[e] /\ \A f \in Engines \ {e} : running'[f] = running[f]
  BY Zenon, <1>2 DEF Types
<1>5. PortsExact' /\ reserved'[e] = 0 /\ \A f \in Engines \ {e} : reserved'[f] = reserved[f]
  BY Zenon, <1>2, <1>3, GivenBack
<1>6. \A j \in Isolates \ {i} : on[j] = e => Apart(i, j)' /\ Apart(j, i)'
  BY Zenon, <1>2, <1>3 DEF Apart
<1>7. ASSUME NEW j \in Isolates, on'[j] = e PROVE OnTrack(j)'
  <2>1. pc'[j] \notin Early \cup Late \cup Ending BY Zenon, <1>2, <1>3, <1>7, ZenonT(60)
  <2> QED BY Zenon, <2>1, Elsewhere
<1>8. Rests(e)' BY Zenon, <1>2, <1>3, <1>4, <1>5 DEF Rests, Held, Free
<1>9. Core' BY Zenon, <1>2, <1>4, <1>5, <1>6, <1>7, <1>8, OneEngine DEF Under
<1> QED BY Zenon, <1>5, <1>9

\* Phase two makes it serve.
LEMMA LoopsStep ==
  ASSUME Types, PortsExact, Core, Types', NEW i \in Isolates, StartLoops(i)
  PROVE PortsExact' /\ Core'
<1> USE DEF Early, Late, Ending
<1>1. PICK e \in Engines : e = on[i] BY Zenon, LateStands, ZenonT(30) DEF StartLoops
<1>2. /\ pc[i] = "loops" /\ pc'[i] = "idle" /\ on[i] = e /\ on'[i] = e
      /\ \A j \in Isolates \ {i} : pc'[j] = pc[j] /\ on'[j] = on[j]
      /\ UNCHANGED <<running, cfgPort, reserved, boundPorts>> /\ loops' = [loops EXCEPT ![e] = "up"]
  BY Zenon, <1>1 DEF StartLoops, Goes, Types
<1>3. /\ running[e] /\ Serves(e)
      /\ \A j \in Isolates \ {i} : on[j] = e => pc[j] \notin Early \cup Late \cup Ending
  BY Zenon, <1>2, LateStands, ZenonT(30) DEF Serves
<1>4. loops'[e] = "up" /\ \A f \in Engines \ {e} : loops'[f] = loops[f]
  BY Zenon, <1>2, ZenonT(30) DEF Types
<1>5. \A j \in Isolates \ {i} : on[j] = e => Apart(i, j)' /\ Apart(j, i)'
  BY Zenon, <1>2, <1>3, ZenonT(30) DEF Apart
<1>6. ASSUME NEW j \in Isolates, on'[j] = e PROVE OnTrack(j)'
  <2>1. pc'[j] \notin Early \cup Late \cup Ending BY Zenon, <1>2, <1>3, <1>6, ZenonT(30)
  <2> QED BY Zenon, <2>1, Elsewhere, ZenonT(30)
<1>7. Rests(e)' BY Zenon, <1>2, <1>3, <1>4, ZenonT(60) DEF Rests, Held, Begins, Free, Serves
<1>8. Core' BY Zenon, <1>2, <1>4, <1>5, <1>6, <1>7, OneEngine, ZenonT(30) DEF Under
<1>9. PortsExact'
  <2>1. UNCHANGED <<cfgPort, reserved, boundPorts>> BY Zenon, <1>2
  <2>2. \A f \in Engines : loops'[f] = "up" => reserved[f] = cfgPort[f]
    BY Zenon, <1>3, <1>4 DEF PortsExact, Serves
  <2> QED BY Zenon, <2>1, <2>2 DEF PortsExact
<1> QED BY Zenon, <1>8, <1>9

-----------------------------------------------------------------------------
\* stop().  The one that takes running_ down finds the engine serving, unless it
\* meets a start, which is one of the windows of Misuse.
LEMMA ClaimsStep ==
  ASSUME Inv, Defined, Core, Types', NEW i \in Isolates, StopClaims(i)
  PROVE Inv'
<1> USE DEF Early, Late, Ending
<1>1. PICK e \in Engines : e = on[i] BY ZenonT(30) DEF StopClaims, Inv, Types
<1>2. /\ pc[i] = "claim" /\ on[i] = e /\ on'[i] = e /\ pc'[i] = IF running[e] THEN "join" ELSE "idle"
      /\ \A j \in Isolates \ {i} : pc'[j] = pc[j] /\ on'[j] = on[j]
      /\ UNCHANGED <<cfgPort, reserved, boundPorts>> /\ running' = [running EXCEPT ![e] = FALSE]
      /\ loops' = [loops EXCEPT ![e] = IF running[e] /\ @ = "up" THEN "stopping" ELSE @]
      /\ misused' = IF running[e] /\ Starting(e) THEN {"race"} ELSE {}
  BY Zenon, <1>1 DEF StopClaims, Goes, Inv, Types
<1>3. /\ ~running'[e] /\ loops'[e] = IF running[e] /\ loops[e] = "up" THEN "stopping" ELSE loops[e]
      /\ \A f \in Engines \ {e} : running'[f] = running[f] /\ loops'[f] = loops[f]
  BY Zenon, <1>2 DEF Inv, Types
<1>4. CASE ~running[e]
  <2>1. running \in [Engines -> BOOLEAN] /\ loops \in [Engines -> {"none", "up", "stopping", "down"}]
    BY Zenon DEF Inv, Types
  <2>2. running' = running /\ loops' = loops BY Zenon, <1>2, <1>4, <2>1
  <2> QED BY Zenon, <1>2, <1>4, <2>2, Frame, ZenonT(30) DEF Inv, Under, ownVars
<1>5. PortsExact' BY Zenon, <1>2, <1>3, ZenonT(30) DEF Inv, PortsExact
<1>6. CASE running[e] /\ Starting(e)
  <2>1. ~Defined' BY Zenon, <1>2, <1>6, ZenonT(30) DEF Defined
  <2>2. Busy(e)' BY Zenon, <1>2, <1>6, ZenonT(30) DEF Busy, Steps
  <2>3. \A f \in Engines \ {e} : Busy(f) => Busy(f)' BY Zenon, <1>2 DEF Busy
  <2>4. WholeOrGone' BY Zenon, <1>2, <1>3, <2>2, <2>3, ZenonT(60) DEF Inv, WholeOrGone
  <2> QED BY Zenon, <1>5, <2>1, <2>4 DEF Inv
<1>7. CASE running[e] /\ ~Starting(e)
  <2>1. \A j \in Isolates : on[j] = e => pc[j] \notin Early \cup Late BY Zenon, <1>7 DEF Starting
  <2>2. ~Held(e) BY Zenon, <1>7, <2>1, ZenonT(30) DEF Core, Resting, Rests
  <2>3. loops[e] = "up" /\ Serves(e)
    BY Zenon, <1>7, <2>1, <2>2, ZenonT(30) DEF Core, Resting, Rests, Free, Begins
  <2>4. \A j \in Isolates \ {i} : on[j] = e => Apart(i, j)' /\ Apart(j, i)'
    BY Zenon, <1>2, <1>7, <2>1, <2>2 DEF Apart, Held
  <2>5. \A j \in Isolates : on'[j] = e => OnTrack(j)'
    BY <1>2, <1>3, <1>7, <2>1, <2>2, <2>3, ZenonT(60) DEF OnTrack, Held, Serves
  <2>6. Rests(e)' BY Zenon, <1>2, <1>3, <1>7, ZenonT(30) DEF Rests, Held
  <2>7. Core' BY Zenon, <1>2, <1>3, <2>4, <2>5, <2>6, OneEngine DEF Inv, Under
  <2> QED BY Zenon, <1>5, <2>7, CoreIsWhole DEF Inv
<1> QED BY Zenon, <1>4, <1>6, <1>7, ZenonT(30)

\* The joined loops are cleared; the port is still held.
LEMMA JoinsStep ==
  ASSUME Types, PortsExact, Core, Types', NEW i \in Isolates, StopJoins(i)
  PROVE PortsExact' /\ Core'
<1> USE DEF Early, Late, Ending
<1>1. PICK e \in Engines : e = on[i] BY ZenonT(30) DEF StopJoins, Types
<1>2. /\ pc[i] = "join" /\ pc'[i] = "release" /\ on[i] = e /\ on'[i] = e
      /\ \A j \in Isolates \ {i} : pc'[j] = pc[j] /\ on'[j] = on[j]
      /\ UNCHANGED <<running, cfgPort, reserved, boundPorts>> /\ loops' = [loops EXCEPT ![e] = "none"]
  BY Zenon, <1>1, ZenonT(30) DEF StopJoins, Goes, Types
<1>3. loops'[e] = "none" /\ \A f \in Engines \ {e} : loops'[f] = loops[f] BY Zenon, <1>2, ZenonT(30) DEF Types
<1>4. Serves(e) /\ \A j \in Isolates \ {i} : on[j] = e => pc[j] \notin Late \cup Ending
  BY <1>2, ZenonT(60) DEF Core, Alone, Apart, Underway, OnTrack
<1>5. \A j \in Isolates \ {i} : on[j] = e => Apart(i, j)' /\ Apart(j, i)' BY Zenon, <1>2, <1>4 DEF Apart
<1>6. \A j \in Isolates : on'[j] = e => OnTrack(j)'
  <2>1. OnTrack(i)' BY Zenon, <1>2, <1>3, <1>4 DEF OnTrack, Serves
  <2>2. ASSUME NEW j \in Isolates \ {i}, on'[j] = e PROVE OnTrack(j)'
    <3>1. /\ on[j] = e /\ pc'[j] = pc[j] /\ pc[j] \notin Late \cup Ending
          /\ pc[j] \in Early => running[e]
      BY <1>2, <1>4, <2>2, ZenonT(60) DEF Core, Underway, OnTrack
    <3> QED BY Zenon, <1>2, <2>2, <3>1 DEF OnTrack
  <2> QED BY Zenon, <2>1, <2>2, ZenonT(30)
<1>7. Rests(e)'
  <2>1. Held(e) /\ Held(e)' BY Zenon, <1>2, ZenonT(30) DEF Held
  <2>2. ASSUME running[e] PROVE \E j \in Isolates : on'[j] = e /\ pc'[j] \in Early \cup Late
    <3>1. PICK j \in Isolates : on[j] = e /\ pc[j] \in Early \cup Late
      BY Zenon, <2>1, <2>2 DEF Core, Resting, Rests
    <3> QED BY Zenon, <1>2, <3>1
  <2> QED BY Zenon, <1>2, <2>1, <2>2, ZenonT(30) DEF Rests
<1>8. Core' BY Zenon, <1>2, <1>3, <1>5, <1>6, <1>7, OneEngine, ZenonT(30) DEF Under
<1>9. PortsExact' BY <1>2, <1>3, ZenonT(60) DEF PortsExact
<1> QED BY Zenon, <1>8, <1>9, ZenonT(30)

\* The port goes back; a start that waits for it may be there already.
LEMMA ReleasesStep ==
  ASSUME Types, PortsExact, Core, Types', NEW i \in Isolates, StopReleases(i)
  PROVE PortsExact' /\ Core'
<1> USE DEF Early, Late, Ending
<1>1. PICK e \in Engines : e = on[i] BY ZenonT(30) DEF StopReleases, Types
<1>2. /\ pc[i] = "release" /\ pc'[i] = "idle" /\ on[i] = e /\ on'[i] = e
      /\ \A j \in Isolates \ {i} : pc'[j] = pc[j] /\ on'[j] = on[j]
      /\ UNCHANGED <<running, cfgPort, loops>>
      /\ boundPorts' = boundPorts \ {reserved[e]} /\ reserved' = [reserved EXCEPT ![e] = 0]
  BY Zenon, <1>1 DEF StopReleases, Goes, Types
<1>3. loops[e] = "none" /\ \A j \in Isolates \ {i} : on[j] = e => pc[j] \notin Late \cup Ending
  BY <1>2, ZenonT(60) DEF Core, Alone, Apart, Underway, OnTrack
<1>4. PortsExact' /\ reserved'[e] = 0 /\ \A f \in Engines \ {e} : reserved'[f] = reserved[f]
  BY Zenon, <1>2, <1>3, GivenBack
<1>5. \A j \in Isolates \ {i} : on[j] = e => Apart(i, j)' /\ Apart(j, i)'
  BY Zenon, <1>2, <1>3 DEF Apart, Core, Alone
<1>6. ASSUME NEW j \in Isolates, on'[j] = e PROVE OnTrack(j)'
  <2>1. CASE pc'[j] \in Early
    <3>1. j # i /\ on[j] = e /\ pc[j] \in Early BY Zenon, <1>2, <1>6, <2>1, ZenonT(30)
    <3>2. running'[e] BY Zenon, <1>2, <3>1 DEF Core, Underway, OnTrack
    <3> QED BY Zenon, <1>6, <2>1, <3>2, ZenonT(30) DEF OnTrack
  <2>2. CASE pc'[j] \notin Early
    <3>1. pc'[j] \notin Early \cup Late \cup Ending BY Zenon, <1>2, <1>3, <1>6, <2>2, ZenonT(30)
    <3> QED BY Zenon, <3>1, Elsewhere
  <2> QED BY Zenon, <2>1, <2>2
<1>7. Rests(e)'
  <2>1. Held(e) BY Zenon, <1>2, ZenonT(30) DEF Held
  <2>2. ASSUME running[e] PROVE Begins(e)'
    <3>1. PICK j \in Isolates : on[j] = e /\ pc[j] \in Early \cup Late
      BY Zenon, <2>1, <2>2 DEF Core, Resting, Rests
    <3>2. j # i BY Zenon, <1>2, <3>1
    <3>3. on'[j] = e /\ pc'[j] \in Early BY Zenon, <1>2, <1>3, <3>1, <3>2
    <3> QED BY Zenon, <3>3 DEF Begins
  <2>3. ~Held(e)' BY Zenon, <1>2, <1>3 DEF Held
  <2> QED BY Zenon, <1>2, <1>3, <1>4, <2>2, <2>3 DEF Rests, Free
<1>8. Core' BY Zenon, <1>2, <1>4, <1>5, <1>6, <1>7, OneEngine DEF Under
<1> QED BY Zenon, <1>4, <1>8, ZenonT(30)

\* A loop ends only while a stop waits for it.
LEMMA EndsStep ==
  ASSUME Types, PortsExact, Core, Types', NEW e \in Engines, LoopEnds(e)
  PROVE PortsExact' /\ Core'
<1> USE DEF Early, Late, Ending
<1>1. /\ loops[e] = "stopping" /\ UNCHANGED <<pc, on, running, cfgPort, reserved, boundPorts>>
      /\ loops' = [loops EXCEPT ![e] = "down"]
  BY ZenonT(30) DEF LoopEnds, callVars
<1>2. loops'[e] = "down" /\ \A f \in Engines \ {e} : loops'[f] = loops[f] BY Zenon, <1>1, ZenonT(30) DEF Types
<1>3. Held(e) BY Zenon, <1>1, ZenonT(30) DEF Core, Resting, Rests, Free
<1>4. PICK i \in Isolates : on[i] = e /\ pc[i] = "join"
  BY Zenon, <1>1, <1>3, ZenonT(30) DEF Held, Core, Underway, OnTrack
<1>5. \A j \in Isolates \ {i} : on[j] = e => Apart(i, j)' /\ Apart(j, i)'
  BY Zenon, <1>1, <1>4, ZenonT(30) DEF Core, Alone, Apart
<1>6. ASSUME NEW j \in Isolates, on'[j] = e PROVE OnTrack(j)'
  <2>1. on[j] = e /\ pc'[j] = pc[j] /\ OnTrack(j) BY Zenon, <1>1, <1>6 DEF Core, Underway
  <2>2. j # i => pc[j] \notin Late \cup {"release"} BY Zenon, <1>4, <2>1, ZenonT(60) DEF Core, Alone, Apart
  <2> QED BY Zenon, <1>1, <1>2, <1>4, <1>6, <2>1, <2>2 DEF OnTrack, Serves
<1>7. Rests(e)' BY Zenon, <1>1, <1>3 DEF Core, Resting, Rests, Held
<1>8. Core' BY Zenon, <1>1, <1>2, <1>4, <1>5, <1>6, <1>7, OneEngine DEF Under
<1>9. PortsExact' BY Zenon, <1>1, <1>2 DEF PortsExact
<1> QED BY Zenon, <1>8, <1>9

-----------------------------------------------------------------------------
\* Every step keeps the invariant: none is taken once something was misused.
LEMMA Step == ASSUME Inv, [Next]_vars PROVE Inv'
<1>1. CASE UNCHANGED vars
  <2>1. UNCHANGED <<holds, toStop, mapped, pc, on, misused>> /\ UNCHANGED ownVars
    BY Zenon, <1>1 DEF vars, registryVars, callVars, engineVars, historyVars, ownVars
  <2>2. Types' BY Zenon, <2>1, ZenonT(60) DEF Inv, Types, ownVars
  <2>3. CASE Defined BY Zenon, <2>1, <2>2, <2>3, Frame DEF Inv
  <2>4. CASE ~Defined
    <3>1. ~Defined' BY Zenon, <2>1, <2>4, ZenonT(30) DEF Defined
    <3>2. PortsExact' BY Zenon, <2>1, ZenonT(30) DEF Inv, PortsExact, ownVars
    <3>3. WholeOrGone' BY Zenon, <2>1, ZenonT(60) DEF Inv, WholeOrGone, Busy, ownVars
    <3> QED BY Zenon, <2>2, <3>1, <3>2, <3>3 DEF Inv
  <2> QED BY Zenon, <2>3, <2>4
<1>2. CASE Next
  <2>1. Types /\ PortsExact /\ Types' BY Zenon, <1>2, TypesStep, ZenonT(60) DEF Inv
  <2>2. Defined
    <3> USE DEF Calls, Goes
    <3>1. ASSUME NEW i \in Isolates,
                 \/ \E e \in Engines : Resolve(i, e)
                 \/ ResetAll(i) \/ ResetStep(i) \/ Starts(i) \/ Stops(i) \/ BeginDrain(i)
          PROVE Defined
      BY Zenon, <3>1 DEF Resolve, ResetAll, ResetStep, ResetStops, ResetEnds, Starts, Stops, BeginDrain
    <3>2. ASSUME NEW i \in Isolates, StartStep(i) PROVE Defined
      BY Zenon, <3>2 DEF StartStep, StartSetsUpTls, StartReserves, StartBinds, StartFails, StartLoops
    <3>3. ASSUME NEW i \in Isolates, StopStep(i) PROVE Defined
      BY Zenon, <3>3 DEF StopStep, StopClaims, StopJoins, StopReleases
    <3>4. ASSUME NEW i \in Isolates, \/ Reloads(i) \/ ReloadBuilds(i) \/ ReloadSwaps(i)
                                     \/ Responds(i) \/ RespondLooks(i) \/ RespondPushes(i)
          PROVE Defined
      BY Zenon, <3>4 DEF Reloads, ReloadBuilds, ReloadSwaps, Responds, RespondLooks, RespondPushes
    <3>5. ASSUME \/ \E e \in Engines : LoopEnds(e) \/ \E k \in Conns : Accepts(e, k)
                 \/ \E k \in Conns : TlsInit(k) \/ Dispatches(k) \/ CloseConn(k)
          PROVE Defined
      BY Zenon, <3>5 DEF LoopEnds, Accepts, TlsInit, Dispatches, CloseConn, LoopRuns
    <3> HIDE DEF Calls, Goes, Defined
    <3> QED BY Zenon, <1>2, <3>1, <3>2, <3>3, <3>4, <3>5 DEF Next
  <2>3. Core BY Zenon, <2>2 DEF Inv
  <2>4. PortsExact' /\ Core' => Inv' BY Zenon, <2>1, CoreIsWhole DEF Inv
  <2>5. ASSUME NEW i \in Isolates, Starts(i) \/ StartStep(i) PROVE Inv'
    BY Zenon, <2>1, <2>3, <2>4, <2>5, StartsStep, EarlySteps, BindsStep, FailsStep, LoopsStep DEF StartStep
  <2>6. ASSUME NEW i \in Isolates, StopStep(i) PROVE Inv'
    BY Zenon, <2>1, <2>2, <2>3, <2>4, <2>6, ClaimsStep, JoinsStep, ReleasesStep DEF StopStep
  <2>7. ASSUME NEW e \in Engines, LoopEnds(e) PROVE Inv'
    BY Zenon, <2>1, <2>3, <2>4, <2>7, EndsStep
  <2> QED BY Zenon, <1>2, <2>1, <2>3, <2>5, <2>6, <2>7, OtherSteps DEF Next
<1> QED BY Zenon, <1>1, <1>2

\* A process that has started nothing satisfies it.
LEMMA Initially == ASSUME Init PROVE Inv
BY Zenon, LifecycleAssumption DEF Init, Inv, Types, Steps, PortsExact, WholeOrGone, Core, Alone, Apart,
   Underway, OnTrack, Resting, Rests, Free, Held, Begins, Early, Late, Ending

\* The invariant of start(), stop() and resetAll().
THEOREM Invariance == Spec => []Inv
<1>1. Init => Inv BY Zenon, Initially
<1>2. Inv /\ [Next]_vars => Inv' BY Zenon, Step
<1> QED BY <1>1, <1>2, PTL DEF Spec

\* boundPorts() holds exactly the ports engines serve on, and no interleaving of
\* starts, failed starts, stops and resets leaves half an engine behind.
THEOREM EnginesWholeHolds == Spec => []EnginesWhole
<1>1. Inv => EnginesWhole BY Zenon DEF Inv, EnginesWhole
<1> QED BY <1>1, Invariance, PTL

-----------------------------------------------------------------------------
(***************************************************************************)
(* Contexts, connections and the calls that meet undefined behaviour:      *)
(* RefsExact and OnlyInWindows.                                            *)
(*                                                                         *)
(* RefsExact counts, and a count is kept only as long as every reference   *)
(* that is given back was held: each context has one owner (Placed), a     *)
(* connection gives back the one it took (Connected), and none is left     *)
(* when its engine lets go.  OnlyInWindows needs, besides, that an answer  *)
(* meets a loop that is gone only after a stop() it has outlived (Pushes), *)
(* and that an engine is started and stopped by one isolate (Served).      *)
(***************************************************************************)
Starter == Early \cup Late

\* The types Types leaves out.
RestTypes ==
  /\ work \in Workloads /\ lock \in Isolates \cup {None}
  /\ fresh \in [Isolates -> Ctxs \cup {None}] /\ answering \in [Isolates -> Conns \cup {None}]
  /\ draining \in [Engines -> BOOLEAN] /\ sslCtx \in [Engines -> Ctxs \cup {None}]
  /\ refs \in [Ctxs -> Nat]
  /\ conn \in [Conns -> {"new", "accepting", "open", "closed"}]
  /\ at \in [Conns -> Engines \cup {None}] /\ ctx \in [Conns -> Ctxs \cup {None}]
  /\ located \subseteq Conns /\ misused \subseteq {"context", "loop", "race"}

\* A connection has a loop that runs.  The context it is about to take a
\* reference on is still its engine's, or has been stored over and so never
\* freed, unless a reload has swapped it out.
Joined(k) ==
  /\ conn[k] \in {"accepting", "open"} => at[k] \in Engines /\ loops[at[k]] \in {"up", "stopping"}
  /\ conn[k] \in {"new", "closed"} => at[k] = None /\ ctx[k] = None
  /\ conn[k] = "accepting" => ctx[k] \in Ctxs
  /\ conn[k] = "accepting" /\ k \notin swapped => sslCtx[at[k]] = ctx[k] \/ ctx[k] \in orphaned
Connected == \A k \in Conns : Joined(k)

\* A context has one owner: an engine, a reload between its build and its swap,
\* or nobody any more.
Placed ==
  /\ orphaned \subseteq Ctxs
  /\ \A e, f \in Engines : e # f /\ sslCtx[e] = sslCtx[f] => sslCtx[e] = None
  /\ \A i, j \in Isolates : i # j /\ fresh[i] = fresh[j] => fresh[i] = None
  /\ \A e \in Engines, i \in Isolates : sslCtx[e] = fresh[i] => fresh[i] = None
  /\ \A e \in Engines : sslCtx[e] \notin orphaned
  /\ \A i \in Isolates : fresh[i] \notin orphaned
  /\ \A i \in Isolates : fresh[i] # None <=> pc[i] = "swap"

\* An answer on its way to a loop that is gone has outlived a stop().
Pushes == \A i \in Isolates : pc[i] = "pushing" /\ i \notin outlived => loops[on[i]] # "none"

\* An engine is started, and outside of a reset stopped, by the one isolate
\* that serves it.
Served ==
  /\ \A i, j \in Isolates : i # j /\ holds[i] = holds[j] /\ holds[i] # None
                              => ~("serve" \in work.may[i] /\ "serve" \in work.may[j])
  /\ \A i \in Isolates : pc[i] \in Starter \/ (pc[i] = "claim" /\ lock # i)
                              => "serve" \in work.may[i] /\ on[i] = holds[i]

Exact == \A x \in Ctxs : refs[x] = Holders(x)

Owned == RestTypes /\ Connected /\ Placed /\ Pushes /\ Served /\ Exact

\* What a step of a call does to the calls.
Moves(i, s) == pc'[i] = s /\ \A j \in Isolates \ {i} : pc'[j] = pc[j]
Aims(i, e) == on'[i] = e /\ \A j \in Isolates \ {i} : on'[j] = on[j]

\* What Goes says of the calls.
LEMMA GoesMoves ==
  ASSUME Types, NEW i \in Isolates, NEW s, Goes(i, s) PROVE Moves(i, s) /\ Defined
BY Zenon DEF Types, Goes, Moves

\* What Calls says of them.
LEMMA CallsMoves ==
  ASSUME Types, NEW i \in Isolates, NEW op, NEW s, Calls(i, op, s)
  PROVE /\ Moves(i, s) /\ Aims(i, holds[i]) /\ Defined
        /\ pc[i] = "idle" /\ op \in work.may[i] /\ lock # i
BY Zenon, GoesMoves DEF Types, Calls, Aims

\* Each part is kept by the steps that leave alone what it is about: here one
\* that touches no connection, stores no context and ends no loop.
LEMMA ConnectedKept ==
  ASSUME RestTypes, Connected, UNCHANGED <<conn, at, ctx, sslCtx, orphaned, swapped>>,
         \A e \in Engines : loops[e] \in {"up", "stopping"} => loops'[e] \in {"up", "stopping"}
  PROVE Connected'
BY Zenon DEF Connected, Joined

\* A step that stores no context and begins or ends no swap.
LEMMA PlacedKept ==
  ASSUME Placed, UNCHANGED <<orphaned, sslCtx, fresh>>,
         \A i \in Isolates : pc'[i] = "swap" <=> pc[i] = "swap"
  PROVE Placed'
BY Zenon DEF Placed

\* A step that brings no answer to its push and clears no loops.
LEMMA PushesKept ==
  ASSUME Types, Pushes, outlived \subseteq outlived',
         \A i \in Isolates : pc'[i] = "pushing" => pc[i] = "pushing" /\ on'[i] = on[i],
         \A e \in Engines : loops'[e] = "none" => loops[e] = "none"
  PROVE Pushes'
BY ZenonT(60) DEF Types, Pushes

\* A step that begins no start and no stop, and takes no mutex.
LEMMA ServedKept ==
  ASSUME Served, UNCHANGED <<work, holds, lock>>,
         \A i \in Isolates : pc'[i] \in Starter => pc[i] \in Starter /\ on'[i] = on[i],
         \A i \in Isolates : pc'[i] = "claim" => pc[i] = "claim" /\ on'[i] = on[i]
  PROVE Served'
BY Zenon DEF Served

\* A step that touches no reference and no holder of one.
LEMMA ExactKept ==
  ASSUME Exact, UNCHANGED <<refs, sslCtx, fresh, ctx, conn, orphaned>> PROVE Exact'
BY Zenon DEF Exact, Holders

\* What a step leaves alone that touches no context and no connection.
ctxVars == <<conn, at, ctx, sslCtx, orphaned, swapped, fresh, refs>>

\* What concerns the contexts stays, then.
LEMMA Untouched ==
  ASSUME Owned, UNCHANGED ctxVars,
         \A e \in Engines : loops[e] \in {"up", "stopping"} => loops'[e] \in {"up", "stopping"},
         \A i \in Isolates : pc'[i] = "swap" <=> pc[i] = "swap"
  PROVE Connected' /\ Placed' /\ Exact'
BY Zenon, ConnectedKept, PlacedKept, ExactKept DEF Owned, ctxVars

\* Its types, then.
LEMMA RestKept ==
  ASSUME RestTypes, UNCHANGED ctxVars,
         work' \in Workloads, lock' \in Isolates \cup {None},
         answering' \in [Isolates -> Conns \cup {None}], draining' \in [Engines -> BOOLEAN],
         located' \subseteq Conns, misused' \subseteq {"context", "loop", "race"}
  PROVE RestTypes'
BY Zenon DEF RestTypes, ctxVars

\* resolve().
LEMMA ResolveOwned ==
  ASSUME Types, Owned, NEW i \in Isolates, NEW e \in Engines, Resolve(i, e) PROVE Owned'
<1>1. /\ UNCHANGED ctxVars /\ UNCHANGED <<pc, on, loops, outlived, work, lock>>
      /\ pc[i] = "idle" /\ holds[i] = None
      /\ holds'[i] = e /\ \A j \in Isolates \ {i} : holds'[j] = holds[j]
      /\ \A j \in Isolates : holds[j] = e => ~("serve" \in work.may[i] /\ "serve" \in work.may[j])
  BY Zenon DEF Resolve, ctxVars, engineVars, connVars, historyVars, Types
<1>2. RestTypes' BY Zenon, <1>1, RestKept DEF Resolve, Owned, RestTypes, engineVars, connVars, historyVars
<1>3. Connected' /\ Placed' /\ Exact' BY Zenon, <1>1, Untouched
<1>4. Pushes' BY Zenon, <1>1, PushesKept DEF Owned
<1>5. Served'
  <2>1. \A g, h \in Isolates : g # h /\ holds'[g] = holds'[h] /\ holds'[g] # None
                              => ~("serve" \in work.may[g] /\ "serve" \in work.may[h])
    BY ZenonT(60), <1>1 DEF Owned, Served
  <2>2. pc[i] \notin Starter /\ pc[i] # "claim" BY Zenon, <1>1 DEF Starter, Early, Late
  <2>3. \A j \in Isolates : pc'[j] \in Starter \/ (pc'[j] = "claim" /\ lock' # j)
                              => "serve" \in work'.may[j] /\ on'[j] = holds'[j]
    BY Zenon, <1>1, <2>2 DEF Owned, Served
  <2> QED BY Zenon, <1>1, <2>1, <2>3 DEF Served
<1> QED BY Zenon, <1>2, <1>3, <1>4, <1>5 DEF Owned

\* resetAll() takes the registry's mutex, and lets go of it.
LEMMA ResetOwned ==
  ASSUME Types, Owned, NEW i \in Isolates, ResetAll(i) \/ ResetEnds(i) PROVE Owned'
<1>1. /\ UNCHANGED ctxVars
      /\ UNCHANGED <<pc, on, loops, outlived, work, holds, answering, draining, located, misused>>
  BY Zenon DEF ResetAll, ResetEnds, ctxVars, callVars, engineVars, connVars, historyVars
<1>a. pc[i] = "idle" /\ ((lock = None /\ lock' = i) \/ (lock = i /\ lock' = None))
  BY Zenon DEF ResetAll, ResetEnds
<1>2. RestTypes' BY Zenon, <1>1, <1>a, RestKept DEF Owned, RestTypes
<1>3. Connected' /\ Placed' /\ Exact' BY Zenon, <1>1, Untouched
<1>4. Pushes' BY Zenon, <1>1, PushesKept DEF Owned
<1>5. Served'
  <2>1. pc[i] \notin Starter /\ pc[i] # "claim" BY Zenon, <1>a DEF Starter, Early, Late
  <2>2. \A j \in Isolates \ {i} : lock # j BY Zenon, <1>a, LifecycleAssumption
  <2> QED BY Zenon, <1>1, <1>a, <2>1, <2>2 DEF Owned, Served
<1> QED BY Zenon, <1>2, <1>3, <1>4, <1>5 DEF Owned

\* A call that begins and touches no context: start, stop, reloadTls, respond,
\* and the stop of a reset.
LEMMA BeginsOwned ==
  ASSUME Types, Owned, NEW i \in Isolates, NEW s \in {"tls", "claim", "build", "looking"}, NEW e,
         Moves(i, s), Aims(i, e), pc[i] = "idle",
         s \in {"tls", "claim"} => \/ e = holds[i] /\ "serve" \in work.may[i]
                                   \/ s = "claim" /\ lock = i,
         UNCHANGED ctxVars,
         UNCHANGED <<loops, outlived, work, lock, holds, answering, draining, located, misused>>
  PROVE Owned'
<1>1. RestTypes' BY Zenon, RestKept DEF Owned, RestTypes
<1>2. \A j \in Isolates : /\ pc'[j] = "swap" <=> pc[j] = "swap"
                          /\ pc'[j] = "pushing" => pc[j] = "pushing" /\ on'[j] = on[j]
  BY Zenon DEF Moves, Aims
<1>3. Connected' /\ Placed' /\ Exact' BY Zenon, <1>2, Untouched
<1>4. Pushes' BY Zenon, <1>2, PushesKept DEF Owned
<1>5. Served'
  <2>1. \A j \in Isolates \ {i} : pc'[j] = pc[j] /\ on'[j] = on[j] BY Zenon DEF Moves, Aims
  <2>2. pc'[i] \in Starter => s = "tls" BY Zenon DEF Moves, Starter, Early, Late
  <2>3. pc'[i] = s /\ on'[i] = e BY Zenon DEF Moves, Aims
  <2> QED BY Zenon, <2>1, <2>2, <2>3 DEF Owned, Served
<1> QED BY Zenon, <1>1, <1>3, <1>4, <1>5 DEF Owned

\* Those calls.
LEMMA CallsOwned ==
  ASSUME Types, Owned, NEW i \in Isolates,
         \/ Starts(i) \/ Stops(i) \/ Reloads(i) \/ Responds(i)
         \/ \E e \in Engines : ResetStops(i, e)
  PROVE Owned'
<1>1. CASE Starts(i)
  BY Zenon, <1>1, CallsMoves, BeginsOwned DEF Starts, ctxVars, registryVars, connVars, historyVars
<1>2. CASE Stops(i)
  BY Zenon, <1>2, CallsMoves, BeginsOwned DEF Stops, ctxVars, registryVars, engineVars, connVars, historyVars
<1>3. CASE Reloads(i)
  BY Zenon, <1>3, CallsMoves, BeginsOwned DEF Reloads, ctxVars, registryVars, engineVars, connVars, historyVars
<1>4. CASE Responds(i)
  BY Zenon, <1>4, CallsMoves, BeginsOwned DEF Responds, ctxVars, registryVars, engineVars, connVars, historyVars
<1>5. ASSUME NEW e \in Engines, ResetStops(i, e) PROVE Owned'
  <2>1. Moves(i, "claim") /\ Aims(i, e) /\ pc[i] = "idle" /\ lock = i
    BY Zenon, <1>5, GoesMoves DEF ResetStops, Aims, Types
  <2> QED BY Zenon, <1>5, <2>1, BeginsOwned DEF ResetStops, ctxVars, engineVars, connVars, historyVars
<1> QED BY Zenon, <1>1, <1>2, <1>3, <1>4, <1>5

\* A call goes on, and touches no context and no connection.
LEMMA GoesOnOwned ==
  ASSUME Types, Owned, NEW i \in Isolates, NEW s, Moves(i, s),
         UNCHANGED ctxVars, UNCHANGED <<on, work, lock, holds>>,
         pc[i] # "swap", s \notin {"swap", "pushing", "claim"}, s \in Starter => pc[i] \in Starter,
         outlived \subseteq outlived',
         \A e \in Engines : loops[e] \in {"up", "stopping"} => loops'[e] \in {"up", "stopping"},
         \A e \in Engines : loops'[e] = "none" => loops[e] = "none",
         answering' \in [Isolates -> Conns \cup {None}], draining' \in [Engines -> BOOLEAN],
         located' \subseteq Conns, misused' \subseteq {"context", "loop", "race"}
  PROVE Owned'
<1>1. RestTypes' BY Zenon, RestKept DEF Owned, RestTypes
<1>2. \A j \in Isolates : /\ pc'[j] = "swap" <=> pc[j] = "swap"
                          /\ pc'[j] = "pushing" => pc[j] = "pushing" /\ on'[j] = on[j]
                          /\ pc'[j] = "claim" => pc[j] = "claim" /\ on'[j] = on[j]
                          /\ pc'[j] \in Starter => pc[j] \in Starter /\ on'[j] = on[j]
  BY Zenon DEF Moves
<1>3. Connected' /\ Placed' /\ Exact' BY Zenon, <1>2, Untouched
<1>4. Pushes' BY Zenon, <1>2, PushesKept DEF Owned
<1>5. Served' BY Zenon, <1>2, ServedKept DEF Owned
<1> QED BY Zenon, <1>1, <1>3, <1>4, <1>5 DEF Owned

\* The start of an engine, but for its context.
LEMMA StartOwned ==
  ASSUME Types, Owned, NEW i \in Isolates,
         StartReserves(i) \/ StartBinds(i) \/ StartFails(i) \/ StartLoops(i)
  PROVE Owned'
<1>1. /\ UNCHANGED ctxVars
      /\ UNCHANGED <<on, work, lock, holds, outlived, answering, draining, located, misused>>
      /\ pc[i] \in {"reserve", "bind", "loops"}
      /\ loops' = loops \/ loops' = [loops EXCEPT ![on[i]] = "up"]
  BY Zenon DEF StartReserves, StartBinds, StartFails, StartLoops, ctxVars, registryVars, connVars, historyVars
<1>2. \E s \in {"idle", "bind", "loops"} : Goes(i, s)
  BY Zenon DEF StartReserves, StartBinds, StartFails, StartLoops
<1>3. PICK s \in {"idle", "bind", "loops"} : Moves(i, s) BY Zenon, <1>2, GoesMoves
<1>4. /\ pc[i] # "swap" /\ s \notin {"swap", "pushing", "claim"}
      /\ s \in Starter => pc[i] \in Starter
  BY Zenon, <1>1, <1>3 DEF Starter, Early, Late
<1>5. \A e \in Engines : /\ loops[e] \in {"up", "stopping"} => loops'[e] \in {"up", "stopping"}
                         /\ loops'[e] = "none" => loops[e] = "none"
  BY Zenon, <1>1 DEF Types
<1> QED BY Zenon, <1>1, <1>3, <1>4, <1>5, GoesOnOwned DEF Owned, RestTypes

\* stop() up to the join of its loops.
LEMMA ClaimsOwned == ASSUME Types, Owned, NEW i \in Isolates, StopClaims(i) PROVE Owned'
<1>1. /\ UNCHANGED ctxVars /\ UNCHANGED <<on, work, lock, holds, outlived, answering, draining, located>>
      /\ pc[i] = "claim"
  BY Zenon DEF StopClaims, ctxVars, registryVars, connVars
<1>2. \E s \in {"idle", "join"} : Goes(i, s) BY Zenon DEF StopClaims
<1>3. PICK s \in {"idle", "join"} : Moves(i, s) BY Zenon, <1>2, GoesMoves
<1>4. /\ pc[i] # "swap" /\ s \notin {"swap", "pushing", "claim"}
      /\ s \in Starter => pc[i] \in Starter
  BY Zenon, <1>1, <1>3 DEF Starter, Early, Late
<1>5. \A e \in Engines : /\ loops[e] \in {"up", "stopping"} => loops'[e] \in {"up", "stopping"}
                         /\ loops'[e] = "none" => loops[e] = "none"
  BY Zenon DEF StopClaims, Types
<1>6. misused' \subseteq {"context", "loop", "race"} BY Zenon DEF StopClaims
<1> QED BY Zenon, <1>1, <1>3, <1>4, <1>5, <1>6, GoesOnOwned DEF Owned, RestTypes

\* The join: an answer on its way to the loops it clears has outlived the stop.
LEMMA JoinsOwned == ASSUME Types, Owned, NEW i \in Isolates, StopJoins(i) PROVE Owned'
<1>1. /\ UNCHANGED ctxVars /\ UNCHANGED <<on, work, lock, holds, answering, draining, located, misused>>
      /\ pc[i] = "join" /\ Goes(i, "release")
      /\ outlived' = outlived \cup {j \in Isolates : on[j] = on[i] /\ pc[j] = "pushing"}
      /\ loops[on[i]] \in {"none", "down"} /\ loops' = [loops EXCEPT ![on[i]] = "none"]
  BY Zenon DEF StopJoins, ctxVars, registryVars, connVars
<1>2. Moves(i, "release") BY Zenon, <1>1, GoesMoves
<1>3. \A e \in Engines : loops[e] \in {"up", "stopping"} => loops'[e] \in {"up", "stopping"}
  BY Zenon, <1>1 DEF Types
<1>4. \A j \in Isolates : /\ pc'[j] = "swap" <=> pc[j] = "swap"
                          /\ pc'[j] = "claim" => pc[j] = "claim" /\ on'[j] = on[j]
                          /\ pc'[j] \in Starter => pc[j] \in Starter /\ on'[j] = on[j]
                          /\ pc'[j] = "pushing" => pc[j] = "pushing"
  BY Zenon, <1>1, <1>2 DEF Moves, Starter, Early, Late
<1>5. RestTypes' BY Zenon, <1>1, RestKept DEF Owned, RestTypes
<1>6. Connected' /\ Placed' /\ Exact' BY Zenon, <1>1, <1>3, <1>4, Untouched
<1>7. Served' BY Zenon, <1>1, <1>4, ServedKept DEF Owned
<1>8. Pushes'
  <2> SUFFICES ASSUME NEW j \in Isolates, pc'[j] = "pushing", j \notin outlived' PROVE loops'[on'[j]] # "none"
    BY Zenon DEF Pushes
  <2>1. pc[j] = "pushing" /\ on[j] # on[i] /\ j \notin outlived BY Zenon, <1>1, <1>4
  <2>2. loops[on[j]] # "none" BY Zenon, <2>1 DEF Owned, Pushes
  <2>3. loops'[on[j]] = loops[on[j]] 
    <3>1. CASE on[j] \in Engines BY Zenon, <3>1, <1>1, <2>1 DEF Types
    <3>2. CASE on[j] \notin Engines BY Zenon, <3>2, <1>1, <2>1 DEF Types
    <3> QED BY Zenon, <3>1, <3>2
  <2> QED BY Zenon, <1>1, <2>2, <2>3
<1> QED BY Zenon, <1>5, <1>6, <1>7, <1>8 DEF Owned

\* beginDrain(), and a request dispatched: neither moves a call.
LEMMA QuietOwned ==
  ASSUME Types, Owned, \/ \E i \in Isolates : BeginDrain(i)
                       \/ \E k \in Conns : Dispatches(k)
  PROVE Owned'
<1>1. UNCHANGED ctxVars /\ UNCHANGED <<pc, on, loops, outlived, work, holds, lock, answering, misused>>
  BY Zenon DEF BeginDrain, Dispatches, ctxVars, registryVars, callVars, engineVars, connVars, historyVars
<1>2. draining' \in [Engines -> BOOLEAN] /\ located' \subseteq Conns
  BY ZenonT(60) DEF BeginDrain, Dispatches, engineVars, connVars, Owned, RestTypes, Types
<1>3. RestTypes' BY Zenon, <1>1, <1>2, RestKept DEF Owned, RestTypes
<1>4. Connected' /\ Placed' /\ Exact' BY Zenon, <1>1, Untouched
<1>5. Pushes' /\ Served' BY Zenon, <1>1, PushesKept, ServedKept DEF Owned
<1> QED BY Zenon, <1>3, <1>4, <1>5 DEF Owned

\* respond() finds the request of a connection, whose loop runs, or none.
LEMMA LooksOwned == ASSUME Types, Owned, NEW i \in Isolates, RespondLooks(i) PROVE Owned'
<1>1. /\ UNCHANGED ctxVars /\ UNCHANGED <<on, loops, work, lock, holds, outlived, draining, misused>>
      /\ pc[i] = "looking"
  BY Zenon DEF RespondLooks, ctxVars, registryVars, engineVars, historyVars
<1>2. located' \subseteq Conns /\ answering' \in [Isolates -> Conns \cup {None}]
  BY ZenonT(60) DEF RespondLooks, Owned, RestTypes
<1>3. CASE Goes(i, "idle")
  <2>1. Moves(i, "idle") BY Zenon, <1>3, GoesMoves
  <2>2. "idle" \notin {"swap", "pushing", "claim"} /\ pc[i] # "swap" /\ "idle" \notin Starter
    BY Zenon, <1>1 DEF Starter, Early, Late
  <2> QED BY Zenon, <1>1, <1>2, <2>1, <2>2, GoesOnOwned DEF Owned, RestTypes
<1>4. ASSUME NEW k \in located, at[k] = on[i], Goes(i, "pushing") PROVE Owned'
  <2>1. Moves(i, "pushing") BY Zenon, <1>4, GoesMoves
  <2>2. RestTypes' BY Zenon, <1>1, <1>2, RestKept DEF Owned, RestTypes
  <2>3. \A j \in Isolates : /\ pc'[j] = "swap" <=> pc[j] = "swap"
                            /\ pc'[j] = "claim" => pc[j] = "claim" /\ on'[j] = on[j]
                            /\ pc'[j] \in Starter => pc[j] \in Starter /\ on'[j] = on[j]
    BY Zenon, <1>1, <2>1 DEF Moves, Starter, Early, Late
  <2>4. Connected' /\ Placed' /\ Exact' BY Zenon, <1>1, <2>3, Untouched
  <2>5. Served' BY Zenon, <1>1, <2>3, ServedKept DEF Owned
  <2>6. loops[on[i]] # "none"
    <3>1. on[i] \in Engines BY Zenon, <1>1 DEF Types
    <3>2. k \in Conns /\ conn[k] \in {"new", "accepting", "open", "closed"} BY Zenon, <1>4 DEF Owned, RestTypes
    <3>3. Joined(k) BY Zenon, <3>2 DEF Owned, Connected
    <3> QED BY Zenon, <3>1, <3>2, <3>3, <1>4, LifecycleAssumption DEF Joined
  <2>7. Pushes' BY Zenon, <1>1, <2>1, <2>6 DEF Owned, Pushes, Moves
  <2> QED BY Zenon, <2>2, <2>4, <2>5, <2>7 DEF Owned
<1> QED BY Zenon, <1>3, <1>4 DEF RespondLooks

\* The push of the answer.
LEMMA RespondPushesOwned == ASSUME Types, Owned, NEW i \in Isolates, RespondPushes(i) PROVE Owned'
<1>1. /\ UNCHANGED ctxVars /\ UNCHANGED <<on, loops, work, lock, holds, outlived, draining, located>>
      /\ pc[i] = "pushing" /\ Goes(i, "idle")
  BY Zenon DEF RespondPushes, ctxVars, registryVars, engineVars, connVars
<1>2. misused' \subseteq {"context", "loop", "race"} BY Zenon DEF RespondPushes
<1>3. answering' \in [Isolates -> Conns \cup {None}] BY Zenon DEF RespondPushes, Owned, RestTypes
<1>4. Moves(i, "idle") BY Zenon, <1>1, GoesMoves
<1>5. "idle" \notin {"swap", "pushing", "claim"} /\ pc[i] # "swap" /\ "idle" \notin Starter
  BY Zenon, <1>1 DEF Starter, Early, Late
<1> QED BY Zenon, <1>1, <1>2, <1>3, <1>4, <1>5, GoesOnOwned DEF Owned, RestTypes

\* How often a function takes a value.
Tally(f, S, x) == Cardinality({a \in S : f[a] = x})

\* The context a connection holds a reference on.
Used == [k \in Conns |-> IF conn[k] = "open" THEN ctx[k] ELSE None]

\* It is a number.
LEMMA TallyType == ASSUME NEW S, IsFiniteSet(S), NEW f, NEW x PROVE Tally(f, S, x) \in Nat
BY Zenon, FS_Subset, FS_CardinalityType DEF Tally

\* How often it takes x once a has another value.
Shifts(f, g, S, a, x) ==
  /\ f[a] # x /\ g[a] = x => Tally(g, S, x) = Tally(f, S, x) + 1
  /\ f[a] = x /\ g[a] # x => Tally(g, S, x) = Tally(f, S, x) - 1
  /\ (f[a] = x <=> g[a] = x) => Tally(g, S, x) = Tally(f, S, x)

\* One argument that takes another value.
LEMMA TallyMoves ==
  ASSUME NEW S, IsFiniteSet(S), NEW f, NEW g, NEW a \in S, NEW x,
         \A b \in S \ {a} : g[b] = f[b]
  PROVE Shifts(f, g, S, a, x)
<1> DEFINE F == {b \in S : f[b] = x}
           G == {b \in S : g[b] = x}
<1>1. IsFiniteSet(F) /\ IsFiniteSet(G) BY Zenon, FS_Subset
<1>2. ASSUME f[a] # x, g[a] = x PROVE Cardinality(G) = Cardinality(F) + 1
  <2>1. G = F \cup {a} /\ a \notin F BY Zenon, <1>2
  <2> HIDE DEF F, G
  <2> QED BY Zenon, <1>1, <2>1, FS_AddElement
<1>3. ASSUME f[a] = x, g[a] # x PROVE Cardinality(G) = Cardinality(F) - 1
  <2>1. G = F \ {a} /\ a \in F BY <1>3
  <2> HIDE DEF F, G
  <2> QED BY Zenon, <1>1, <2>1, FS_RemoveElement
<1>4. ASSUME f[a] = x <=> g[a] = x PROVE Cardinality(G) = Cardinality(F)
  <2>1. G = F BY Zenon, <1>4
  <2> HIDE DEF F, G
  <2> QED BY Zenon, <2>1
<1> QED BY Zenon, <1>2, <1>3, <1>4 DEF Tally, Shifts

\* The arguments that hold a value, some of which let go of it.
LEMMA TallyDrops ==
  ASSUME NEW S, IsFiniteSet(S), NEW f, NEW g, NEW x, NEW M \in SUBSET S,
         \A b \in S \ M : g[b] = f[b], \A b \in M : g[b] # x
  PROVE Tally(g, S, x) = Tally(f, S, x) - Tally(f, M, x)
<1> DEFINE F == {b \in S : f[b] = x}
           G == {b \in S : g[b] = x}
           D == {b \in M : f[b] = x}
<1>1. IsFiniteSet(F) /\ IsFiniteSet(D) BY Zenon, FS_Subset
<1>2. G = F \ D /\ F \cap D = D BY Zenon
<1>3. Cardinality(F) \in Nat /\ Cardinality(D) \in Nat BY Zenon, <1>1, FS_CardinalityType
<1>4. Cardinality(G) = Cardinality(F) - Cardinality(D)
  <2> HIDE DEF F, G, D
  <2> QED BY ZenonT(60), <1>1, <1>2, <1>3, FS_Difference
<1> QED BY Zenon, <1>4 DEF Tally

Stray(x) == IF x \in orphaned THEN 1 ELSE 0
Total(x) == Tally(sslCtx, Engines, x) + Tally(fresh, Isolates, x) + Tally(Used, Conns, x) + Stray(x)

\* The holders of a context, counted part by part.
LEMMA HoldersTotal ==
  ASSUME NEW x \in Ctxs PROVE Holders(x) = Total(x) /\ Holders(x)' = Total(x)'
<1>1. x # None BY Zenon, LifecycleAssumption
<1>2. {k \in Conns : ctx[k] = x /\ conn[k] = "open"} = {k \in Conns : Used[k] = x} BY Zenon, <1>1 DEF Used
<1>3. {k \in Conns : ctx'[k] = x /\ conn'[k] = "open"} = {k \in Conns : Used'[k] = x} BY Zenon, <1>1 DEF Used
<1> QED BY Zenon, <1>2, <1>3 DEF Holders, Total, Tally, Stray

\* The parts are numbers.
LEMMA PartsType ==
  ASSUME NEW x \in Ctxs
  PROVE /\ Tally(sslCtx, Engines, x) \in Nat /\ Tally(fresh, Isolates, x) \in Nat
        /\ Tally(Used, Conns, x) \in Nat /\ Stray(x) \in Nat
        /\ Tally(sslCtx', Engines, x) \in Nat /\ Tally(fresh', Isolates, x) \in Nat
        /\ Tally(Used', Conns, x) \in Nat /\ Stray(x)' \in Nat
        /\ Total(x)' \in Nat
<1>1. IsFiniteSet(Engines) /\ IsFiniteSet(Isolates) /\ IsFiniteSet(Conns) BY Zenon, LifecycleAssumption
<1>2. /\ Tally(sslCtx, Engines, x) \in Nat /\ Tally(fresh, Isolates, x) \in Nat
      /\ Tally(Used, Conns, x) \in Nat
      /\ Tally(sslCtx', Engines, x) \in Nat /\ Tally(fresh', Isolates, x) \in Nat
      /\ Tally(Used', Conns, x) \in Nat
  BY Zenon, <1>1, TallyType
<1>3. Stray(x) \in Nat /\ Stray(x)' \in Nat BY Zenon DEF Stray
<1>4. Total(x)' \in Nat BY <1>2, <1>3 DEF Total
<1> QED BY Zenon, <1>2, <1>3, <1>4

\* What a step has to show.
LEMMA ExactBy ==
  ASSUME refs' = [x \in Ctxs |-> refs'[x]], \A x \in Ctxs : refs'[x] = Total(x)'
  PROVE Exact' /\ refs' \in [Ctxs -> Nat]
<1>1. \A x \in Ctxs : refs'[x] = Holders(x)' BY Zenon, HoldersTotal
<1>2. \A x \in Ctxs : refs'[x] \in Nat BY Zenon, PartsType
<1>3. refs' \in [Ctxs -> Nat] BY Zenon, <1>2
<1> QED BY Zenon, <1>1, <1>3 DEF Exact

\* A context SSL_CTX_new returns is nobody's.
LEMMA NewIsUnused ==
  ASSUME Owned, NEW x \in NewCtx
  PROVE /\ x \in Ctxs /\ refs[x] = 0 /\ x \notin orphaned /\ x # None
        /\ \A e \in Engines : sslCtx[e] # x
        /\ \A k \in Conns : ctx[k] # x
        /\ \A i \in Isolates : fresh[i] # x
<1>1. x \in Unused BY Zenon DEF NewCtx
<1>2. /\ x \in Ctxs /\ refs[x] = 0 /\ x \notin orphaned
      /\ \A e \in Engines : sslCtx[e] # x
      /\ \A k \in Conns : ctx[k] # x
  BY Zenon, <1>1 DEF Unused
<1>3. x # None BY Zenon, <1>2, LifecycleAssumption
<1>4. Tally(fresh, Isolates, x) = 0
  <2>1. Total(x) = 0 BY Zenon, <1>2, HoldersTotal DEF Owned, Exact
  <2> QED BY SMTT(30), <1>2, <2>1, PartsType DEF Total
<1>5. IsFiniteSet(Isolates) BY Zenon, LifecycleAssumption
<1>6. {i \in Isolates : fresh[i] = x} = {} BY Zenon, <1>4, <1>5, FS_Subset, FS_EmptySet DEF Tally
<1> QED BY Zenon, <1>2, <1>3, <1>6

\* What a context has before a step, then.
LEMMA ExactParts == ASSUME Owned, NEW x \in Ctxs PROVE refs[x] = Total(x)
BY Zenon, HoldersTotal DEF Owned, Exact

\* The calls a step of a call that touches a context leaves in place.
LEMMA CallsKept ==
  ASSUME Types, Owned, NEW i \in Isolates, NEW s, Moves(i, s),
         UNCHANGED <<on, work, lock, holds, outlived, loops>>,
         s \notin {"pushing", "claim"}, s \in Starter => pc[i] \in Starter
  PROVE Pushes' /\ Served'
<1>1. \A j \in Isolates : /\ pc'[j] = "pushing" => pc[j] = "pushing" /\ on'[j] = on[j]
                          /\ pc'[j] = "claim" => pc[j] = "claim" /\ on'[j] = on[j]
                          /\ pc'[j] \in Starter => pc[j] \in Starter /\ on'[j] = on[j]
  BY Zenon DEF Moves
<1> QED BY ZenonT(60), <1>1, PushesKept, ServedKept DEF Owned

\* setupTls() stores a new context over the one an abandoned start left.
LEMMA StoresOwned ==
  ASSUME Types, Owned, NEW i \in Isolates, NEW e \in Engines, NEW x \in NewCtx,
         pc[i] = "tls", Moves(i, "reserve"),
         sslCtx' = [sslCtx EXCEPT ![e] = x], refs' = [refs EXCEPT ![x] = 1],
         orphaned' = orphaned \cup ({sslCtx[e]} \ {None}),
         UNCHANGED <<on, work, lock, holds, outlived, loops, conn, at, ctx, fresh, swapped,
                     answering, draining, located, misused>>
  PROVE Owned'
<1>1. /\ x \in Ctxs /\ refs[x] = 0 /\ x \notin orphaned /\ x # None
      /\ \A f \in Engines : sslCtx[f] # x
      /\ \A k \in Conns : ctx[k] # x
      /\ \A j \in Isolates : fresh[j] # x
  BY Zenon, NewIsUnused
<1>2. /\ sslCtx'[e] = x /\ \A f \in Engines \ {e} : sslCtx'[f] = sslCtx[f]
      /\ sslCtx' \in [Engines -> Ctxs \cup {None}]
  BY Zenon, <1>1 DEF Owned, RestTypes
<1>3. refs'[x] = 1 /\ \A y \in Ctxs \ {x} : refs'[y] = refs[y] BY Zenon, <1>1 DEF Owned, RestTypes
<1>4. \A j \in Isolates : pc'[j] = "swap" <=> pc[j] = "swap" BY Zenon DEF Moves
<1>5. sslCtx[e] \in Ctxs \cup {None} BY Zenon DEF Owned, RestTypes
<1>6. Connected'
  <2> SUFFICES ASSUME NEW k \in Conns PROVE Joined(k)' BY Zenon DEF Connected
  <2>1. Joined(k) BY Zenon DEF Owned, Connected
  <2>2. conn[k] = "accepting" /\ k \notin swapped => sslCtx'[at[k]] = ctx[k] \/ ctx[k] \in orphaned'
    <3> HAVE conn[k] = "accepting" /\ k \notin swapped
    <3>1. at[k] \in Engines /\ ctx[k] \in Ctxs /\ (sslCtx[at[k]] = ctx[k] \/ ctx[k] \in orphaned)
      BY Zenon, <2>1 DEF Joined
    <3>2. ctx[k] # None BY Zenon, <3>1, LifecycleAssumption
    <3> QED BY ZenonT(60), <3>1, <3>2, <1>2
  <2> QED BY Zenon, <2>1, <2>2 DEF Joined
<1>7. Placed'
  <2>1. orphaned' \subseteq Ctxs BY Zenon, <1>5 DEF Owned, Placed
  <2>2. \A f, g \in Engines : f # g /\ sslCtx'[f] = sslCtx'[g] => sslCtx'[f] = None
    BY ZenonT(60), <1>1, <1>2 DEF Owned, Placed
  <2>3. \A f \in Engines, j \in Isolates : sslCtx'[f] = fresh[j] => fresh[j] = None
    BY ZenonT(60), <1>1, <1>2 DEF Owned, Placed
  <2>4. \A f \in Engines : sslCtx'[f] \notin orphaned'
    <3> SUFFICES ASSUME NEW f \in Engines PROVE sslCtx'[f] \notin orphaned' BY Zenon
    <3>1. CASE f = e BY Zenon, <3>1, <1>1, <1>2
    <3>2. CASE f # e BY Zenon, <3>2, <1>2 DEF Owned, Placed
    <3> QED BY Zenon, <3>1, <3>2
  <2>5. \A j \in Isolates : fresh[j] \notin orphaned' BY Zenon DEF Owned, Placed
  <2>6. \A j, h \in Isolates : j # h /\ fresh[j] = fresh[h] => fresh[j] = None BY Zenon DEF Owned, Placed
  <2>7. \A j \in Isolates : fresh[j] # None <=> pc'[j] = "swap" BY Zenon, <1>4 DEF Owned, Placed
  <2> QED BY ZenonT(60), <2>1, <2>2, <2>3, <2>4, <2>5, <2>6, <2>7 DEF Placed
<1>8. "reserve" \notin {"pushing", "claim"} /\ pc[i] \in Starter BY Zenon DEF Starter, Early, Late
<1>9. Pushes' /\ Served' BY Zenon, <1>8, CallsKept
<1>10. Exact' /\ refs' \in [Ctxs -> Nat]
  <2> SUFFICES ASSUME NEW y \in Ctxs PROVE refs'[y] = Total(y)'
    BY Zenon, ExactBy DEF Owned, RestTypes
  <2>1. refs[y] = Total(y) BY Zenon, ExactParts
  <2>2. Used' = Used BY Zenon DEF Used
  <2>3. IsFiniteSet(Engines) BY Zenon, LifecycleAssumption
  <2>4. Shifts(sslCtx, sslCtx', Engines, e, y) BY Zenon, <2>3, <1>2, TallyMoves
  <2>5. Total(y)' = Tally(sslCtx', Engines, y) + Tally(fresh, Isolates, y) + Tally(Used, Conns, y) + Stray(y)'
    BY Zenon, <2>2 DEF Total
  <2>6. y # None BY Zenon, LifecycleAssumption
  <2>7. CASE y = x
    <3>1. Stray(y)' = Stray(y) BY Zenon, <2>7, <1>1 DEF Stray
    <3>2. Tally(sslCtx', Engines, y) = Tally(sslCtx, Engines, y) + 1 BY ZenonT(60), <2>4, <2>7, <1>1, <1>2 DEF Shifts
    <3>3. refs'[y] = refs[y] + 1 BY SMTT(30), <2>7, <1>1, <1>3
    <3> QED BY SMTT(30), <2>1, <2>5, <3>1, <3>2, <3>3, PartsType DEF Total
  <2>8. CASE y # x /\ y = sslCtx[e]
    <3>1. Stray(y)' = 1 /\ Stray(y) = 0 BY Zenon, <2>8, <2>6 DEF Stray, Owned, Placed
    <3>2. Tally(sslCtx', Engines, y) = Tally(sslCtx, Engines, y) - 1 BY Zenon, <2>4, <2>8, <1>2 DEF Shifts
    <3>3. refs'[y] = refs[y] BY Zenon, <2>8, <1>3
    <3> QED BY SMTT(30), <2>1, <2>5, <3>1, <3>2, <3>3, PartsType DEF Total
  <2>9. CASE y # x /\ y # sslCtx[e]
    <3>1. Stray(y)' = Stray(y) BY Zenon, <2>9 DEF Stray
    <3>2. Tally(sslCtx', Engines, y) = Tally(sslCtx, Engines, y) BY Zenon, <2>4, <2>9, <1>2 DEF Shifts
    <3>3. refs'[y] = refs[y] BY Zenon, <2>9, <1>3
    <3> QED BY ZenonT(60), <2>1, <2>5, <3>1, <3>2, <3>3, PartsType DEF Total
  <2> QED BY Zenon, <2>7, <2>8, <2>9
<1>11. RestTypes' BY Zenon, <1>2, <1>10 DEF Owned, RestTypes
<1> QED BY Zenon, <1>6, <1>7, <1>9, <1>10, <1>11 DEF Owned

\* setupTls().
LEMMA SetsUpOwned == ASSUME Types, Owned, NEW i \in Isolates, StartSetsUpTls(i) PROVE Owned'
<1>1. /\ UNCHANGED <<on, work, lock, holds, outlived, loops, conn, at, ctx, fresh, swapped,
                     answering, draining, located, misused>>
      /\ pc[i] = "tls"
  BY Zenon DEF StartSetsUpTls, registryVars, connVars
<1>2. on[i] \in Engines BY Zenon, <1>1 DEF Types
<1>3. ASSUME NEW s \in {"reserve", "idle"}, Goes(i, s), UNCHANGED <<sslCtx, refs, orphaned>> PROVE Owned'
  <2>1. Moves(i, s) BY Zenon, <1>3, GoesMoves
  <2>2. pc[i] # "swap" /\ s \notin {"swap", "pushing", "claim"} /\ pc[i] \in Starter
    BY Zenon, <1>1, <1>3 DEF Starter, Early, Late
  <2>3. UNCHANGED ctxVars BY Zenon, <1>1, <1>3 DEF ctxVars
  <2> QED BY Zenon, <1>1, <2>1, <2>2, <2>3, GoesOnOwned DEF Owned, RestTypes
<1>4. ASSUME NEW x \in NewCtx, Goes(i, "reserve"),
             sslCtx' = [sslCtx EXCEPT ![on[i]] = x], refs' = [refs EXCEPT ![x] = 1],
             orphaned' = orphaned \cup ({sslCtx[on[i]]} \ {None})
      PROVE Owned'
  BY Zenon, <1>1, <1>2, <1>4, GoesMoves, StoresOwned
<1> QED BY Zenon, <1>3, <1>4 DEF StartSetsUpTls

\* buildSslCtx(): the reload owns what it builds.
LEMMA BuildsOwned == ASSUME Types, Owned, NEW i \in Isolates, ReloadBuilds(i) PROVE Owned'
<1>1. /\ UNCHANGED <<on, work, lock, holds, outlived, loops, conn, at, ctx, sslCtx, orphaned, swapped,
                     answering, draining, located, misused>>
      /\ pc[i] = "build"
  BY Zenon DEF ReloadBuilds, registryVars, engineVars, connVars, historyVars
<1>2. CASE Goes(i, "idle") /\ UNCHANGED <<refs, fresh>>
  <2>1. Moves(i, "idle") BY Zenon, <1>2, GoesMoves
  <2>2. pc[i] # "swap" /\ "idle" \notin {"swap", "pushing", "claim"} /\ "idle" \notin Starter
    BY Zenon, <1>1 DEF Starter, Early, Late
  <2>3. UNCHANGED ctxVars BY Zenon, <1>1, <1>2 DEF ctxVars
  <2> QED BY Zenon, <1>1, <2>1, <2>2, <2>3, GoesOnOwned DEF Owned, RestTypes
<1>3. ASSUME NEW x \in NewCtx, Goes(i, "swap"),
             refs' = [refs EXCEPT ![x] = 1], fresh' = [fresh EXCEPT ![i] = x]
      PROVE Owned'
  <2>1. /\ x \in Ctxs /\ refs[x] = 0 /\ x \notin orphaned /\ x # None
        /\ \A f \in Engines : sslCtx[f] # x
        /\ \A k \in Conns : ctx[k] # x
        /\ \A j \in Isolates : fresh[j] # x
    BY Zenon, NewIsUnused
  <2>2. /\ fresh'[i] = x /\ \A j \in Isolates \ {i} : fresh'[j] = fresh[j]
        /\ fresh' \in [Isolates -> Ctxs \cup {None}]
    BY Zenon, <1>3, <2>1 DEF Owned, RestTypes
  <2>3. refs'[x] = 1 /\ \A y \in Ctxs \ {x} : refs'[y] = refs[y] BY Zenon, <1>3, <2>1 DEF Owned, RestTypes
  <2>4. Moves(i, "swap") BY Zenon, <1>3, GoesMoves
  <2>5. fresh[i] = None BY Zenon, <1>1 DEF Owned, Placed
  <2>6. Connected' BY Zenon, <1>1, ConnectedKept DEF Owned
  <2>7. Placed'
    <3>1. \A j, h \in Isolates : j # h /\ fresh'[j] = fresh'[h] => fresh'[j] = None
      BY SMTT(30), <2>1, <2>2 DEF Owned, Placed
    <3>2. \A f \in Engines, j \in Isolates : sslCtx[f] = fresh'[j] => fresh'[j] = None
      BY <2>1, <2>2 DEF Owned, Placed
    <3>3. \A j \in Isolates : fresh'[j] \notin orphaned BY Zenon, <2>1, <2>2 DEF Owned, Placed
    <3>4. \A j \in Isolates : fresh'[j] # None <=> pc'[j] = "swap"
      BY ZenonT(60), <2>1, <2>2, <2>4 DEF Owned, Placed, Moves
    <3> QED BY ZenonT(60), <1>1, <3>1, <3>2, <3>3, <3>4 DEF Owned, Placed
  <2>8. "swap" \notin {"pushing", "claim"} /\ "swap" \notin Starter BY Zenon DEF Starter, Early, Late
  <2>9. Pushes' /\ Served' BY Zenon, <1>1, <2>4, <2>8, CallsKept
  <2>10. Exact' /\ refs' \in [Ctxs -> Nat]
    <3> SUFFICES ASSUME NEW y \in Ctxs PROVE refs'[y] = Total(y)'
      BY Zenon, <1>3, ExactBy DEF Owned, RestTypes
    <3>1. refs[y] = Total(y) BY Zenon, ExactParts
    <3>2. Used' = Used BY Zenon, <1>1 DEF Used
    <3>3. IsFiniteSet(Isolates) BY Zenon, LifecycleAssumption
    <3>4. Shifts(fresh, fresh', Isolates, i, y) BY Zenon, <3>3, <2>2, TallyMoves
    <3>5. Total(y)' = Tally(sslCtx, Engines, y) + Tally(fresh', Isolates, y) + Tally(Used, Conns, y) + Stray(y)
      BY Zenon, <1>1, <3>2 DEF Total, Stray
    <3>6. y # None BY Zenon, LifecycleAssumption
    <3>7. CASE y = x
      <4>1. Tally(fresh', Isolates, y) = Tally(fresh, Isolates, y) + 1
        BY ZenonT(60), <3>4, <3>7, <2>1, <2>2 DEF Shifts
      <4>2. refs'[y] = refs[y] + 1 BY <3>7, <2>1, <2>3
      <4> QED BY SMTT(30), <3>1, <3>5, <4>1, <4>2, PartsType DEF Total
    <3>8. CASE y # x
      <4>1. Tally(fresh', Isolates, y) = Tally(fresh, Isolates, y)
        BY ZenonT(60), <3>4, <3>6, <3>8, <2>2, <2>5 DEF Shifts
      <4>2. refs'[y] = refs[y] BY Zenon, <3>8, <2>3
      <4> QED BY Zenon, <3>1, <3>5, <4>1, <4>2, PartsType DEF Total
    <3> QED BY Zenon, <3>7, <3>8
  <2>11. RestTypes' BY Zenon, <1>1, <2>2, <2>10 DEF Owned, RestTypes
  <2> QED BY Zenon, <2>6, <2>7, <2>9, <2>10, <2>11 DEF Owned
<1> QED BY Zenon, <1>2, <1>3 DEF ReloadBuilds

\* The swap: the engine takes the new context over, and lets go of the old one.
LEMMA SwapsOwned == ASSUME Types, Owned, NEW i \in Isolates, ReloadSwaps(i) PROVE Owned'
<1> DEFINE e == on[i]
           old == sslCtx[e]
           x == fresh[i]
<1>1. /\ UNCHANGED <<on, work, lock, holds, outlived, loops, conn, at, ctx, orphaned,
                     answering, draining, located, misused>>
      /\ pc[i] = "swap" /\ Goes(i, "idle")
      /\ sslCtx' = [sslCtx EXCEPT ![e] = x] /\ fresh' = [fresh EXCEPT ![i] = None]
      /\ refs' = IF old = None THEN refs ELSE [refs EXCEPT ![old] = @ - 1]
      /\ swapped' = swapped \cup {k \in Conns : conn[k] = "accepting" /\ at[k] = e}
  BY Zenon DEF ReloadSwaps, Drop, registryVars, connVars
<1>2. e \in Engines BY Zenon, <1>1 DEF Types
<1>3. /\ x \in Ctxs /\ x # None /\ x \notin orphaned
      /\ \A f \in Engines : sslCtx[f] # x
      /\ \A j \in Isolates \ {i} : fresh[j] # x
      /\ old \in Ctxs \cup {None}
  BY ZenonT(60), <1>1, <1>2 DEF Owned, Placed, RestTypes
<1>4. /\ sslCtx'[e] = x /\ \A f \in Engines \ {e} : sslCtx'[f] = sslCtx[f]
      /\ sslCtx' \in [Engines -> Ctxs \cup {None}]
  BY Zenon, <1>1, <1>2, <1>3 DEF Owned, RestTypes
<1>5. /\ fresh'[i] = None /\ \A j \in Isolates \ {i} : fresh'[j] = fresh[j]
      /\ fresh' \in [Isolates -> Ctxs \cup {None}]
  BY Zenon, <1>1 DEF Owned, RestTypes
<1>6. Moves(i, "idle") BY Zenon, <1>1, GoesMoves
<1>7. Connected'
  <2> SUFFICES ASSUME NEW k \in Conns PROVE Joined(k)' BY Zenon DEF Connected
  <2>1. Joined(k) BY Zenon DEF Owned, Connected
  <2>2. conn[k] = "accepting" /\ k \notin swapped' => sslCtx'[at[k]] = ctx[k] \/ ctx[k] \in orphaned
    <3> HAVE conn[k] = "accepting" /\ k \notin swapped'
    <3>1. k \notin swapped /\ at[k] # e BY Zenon, <1>1
    <3>2. at[k] \in Engines /\ (sslCtx[at[k]] = ctx[k] \/ ctx[k] \in orphaned)
      BY Zenon, <2>1, <3>1 DEF Joined
    <3> QED BY ZenonT(60), <3>1, <3>2, <1>4
  <2> QED BY Zenon, <1>1, <2>1, <2>2 DEF Joined
<1>8. Placed'
  <2>1. \A f, g \in Engines : f # g /\ sslCtx'[f] = sslCtx'[g] => sslCtx'[f] = None
    BY SMTT(30), <1>3, <1>4 DEF Owned, Placed
  <2>2. \A f \in Engines, j \in Isolates : sslCtx'[f] = fresh'[j] => fresh'[j] = None
    BY SMTT(30), <1>3, <1>4, <1>5 DEF Owned, Placed
  <2>3. \A f \in Engines : sslCtx'[f] \notin orphaned BY Zenon, <1>3, <1>4 DEF Owned, Placed
  <2>4. \A j, h \in Isolates : j # h /\ fresh'[j] = fresh'[h] => fresh'[j] = None
    BY ZenonT(60), <1>3, <1>5 DEF Owned, Placed
  <2>5. None \notin orphaned BY Zenon, LifecycleAssumption DEF Owned, Placed
  <2>6. \A j \in Isolates : fresh'[j] \notin orphaned BY Zenon, <1>5, <2>5 DEF Owned, Placed
  <2>7. \A j \in Isolates : fresh'[j] # None <=> pc'[j] = "swap"
    BY ZenonT(60), <1>5, <1>6 DEF Owned, Placed, Moves
  <2> QED BY ZenonT(60), <1>1, <2>1, <2>2, <2>3, <2>4, <2>6, <2>7 DEF Owned, Placed
<1>9. "idle" \notin {"pushing", "claim"} /\ "idle" \notin Starter BY Zenon DEF Starter, Early, Late
<1>10. Pushes' /\ Served' BY Zenon, <1>1, <1>6, <1>9, CallsKept
<1>11. /\ refs' = [y \in Ctxs |-> refs'[y]]
       /\ \A y \in Ctxs : refs'[y] = IF y = old THEN refs[y] - 1 ELSE refs[y]
  <2>1. refs = [y \in Ctxs |-> refs[y]] BY Zenon DEF Owned, RestTypes
  <2>2. None \notin Ctxs BY Zenon, LifecycleAssumption
  <2>3. CASE old = None BY ZenonT(60), <1>1, <2>1, <2>2, <2>3
  <2>4. CASE old # None
    <3>1. refs' = [refs EXCEPT ![old] = @ - 1] BY Zenon, <1>1, <2>4
    <3> HIDE DEF old
    <3> QED BY Zenon, <2>1, <3>1
  <2> QED BY Zenon, <2>3, <2>4
<1>12. Exact' /\ refs' \in [Ctxs -> Nat]
  <2> SUFFICES ASSUME NEW y \in Ctxs PROVE refs'[y] = Total(y)' BY Zenon, <1>11, ExactBy
  <2>1. refs[y] = Total(y) BY Zenon, ExactParts
  <2>2. Used' = Used BY Zenon, <1>1 DEF Used
  <2>3. IsFiniteSet(Isolates) /\ IsFiniteSet(Engines) BY Zenon, LifecycleAssumption
  <2>4. Shifts(fresh, fresh', Isolates, i, y) BY Zenon, <2>3, <1>5, TallyMoves
  <2>5. Shifts(sslCtx, sslCtx', Engines, e, y) BY Zenon, <2>3, <1>2, <1>4, TallyMoves
  <2>6. Total(y)' = Tally(sslCtx', Engines, y) + Tally(fresh', Isolates, y) + Tally(Used, Conns, y) + Stray(y)
    BY Zenon, <1>1, <2>2 DEF Total, Stray
  <2>7. y # None BY Zenon, LifecycleAssumption
  <2>8. CASE y = x
    <3>1. Tally(fresh', Isolates, y) = Tally(fresh, Isolates, y) - 1 BY Zenon, <2>4, <2>7, <2>8, <1>5 DEF Shifts
    <3>2. Tally(sslCtx', Engines, y) = Tally(sslCtx, Engines, y) + 1
      BY ZenonT(60), <2>5, <2>8, <1>2, <1>3, <1>4 DEF Shifts
    <3>3. refs'[y] = refs[y] BY ZenonT(60), <1>2, <1>3, <1>11, <2>8
    <3> QED BY SMTT(30), <2>1, <2>6, <3>1, <3>2, <3>3, PartsType DEF Total
  <2>9. CASE y # x
    <3>1. Tally(fresh', Isolates, y) = Tally(fresh, Isolates, y) BY ZenonT(60), <2>4, <2>7, <2>9, <1>5 DEF Shifts
    <3>2. CASE y = old
      <4>1. Tally(sslCtx', Engines, y) = Tally(sslCtx, Engines, y) - 1
        BY Zenon, <2>5, <2>9, <3>2, <1>4 DEF Shifts
      <4>2. refs'[y] = refs[y] - 1 BY Zenon, <1>11, <3>2
      <4> QED BY SMTT(30), <2>1, <2>6, <3>1, <4>1, <4>2, PartsType DEF Total
    <3>3. CASE y # old
      <4>1. Tally(sslCtx', Engines, y) = Tally(sslCtx, Engines, y) BY Zenon, <2>5, <2>9, <3>3, <1>4 DEF Shifts
      <4>2. refs'[y] = refs[y] BY Zenon, <1>11, <3>3
      <4> QED BY ZenonT(60), <2>1, <2>6, <3>1, <4>1, <4>2, PartsType DEF Total
    <3> QED BY Zenon, <3>2, <3>3
  <2> QED BY Zenon, <2>8, <2>9
<1>13. RestTypes' BY ZenonT(60), <1>1, <1>4, <1>5, <1>12 DEF Owned, RestTypes
<1> QED BY ZenonT(60), <1>7, <1>8, <1>10, <1>12, <1>13 DEF Owned

\* A reference given back, on a context or on none.
LEMMA Dropped ==
  ASSUME RestTypes, NEW y0 \in Ctxs \cup {None}, IF y0 = None THEN UNCHANGED refs ELSE Drop(y0)
  PROVE /\ refs' = [y \in Ctxs |-> refs'[y]]
        /\ \A y \in Ctxs : refs'[y] = IF y = y0 THEN refs[y] - 1 ELSE refs[y]
<1>1. refs = [y \in Ctxs |-> refs[y]] BY Zenon DEF RestTypes
<1>2. None \notin Ctxs BY Zenon, LifecycleAssumption
<1>3. CASE y0 = None BY Zenon, <1>1, <1>2, <1>3
<1>4. CASE y0 # None
  <2>1. refs' = [refs EXCEPT ![y0] = @ - 1] BY Zenon, <1>4 DEF Drop
  <2> QED BY Zenon, <1>1, <2>1
<1> QED BY Zenon, <1>3, <1>4

\* The end of a stop: the engine's reference goes.  The loops were joined, so no
\* connection of the engine is left that was to take one.
LEMMA ReleasesOwned == ASSUME Types, Core, Owned, NEW i \in Isolates, StopReleases(i) PROVE Owned'
<1> DEFINE e == on[i]
           old == sslCtx[e]
<1>1. /\ UNCHANGED <<on, work, lock, holds, outlived, loops, conn, at, ctx, orphaned, swapped, fresh,
                     answering, draining, located, misused>>
      /\ pc[i] = "release" /\ Goes(i, "idle")
      /\ sslCtx' = [sslCtx EXCEPT ![e] = None]
      /\ IF old = None THEN UNCHANGED refs ELSE Drop(old)
  BY Zenon DEF StopReleases, registryVars, connVars, historyVars
<1>2. e \in Engines BY Zenon, <1>1 DEF Types
<1>3. loops[e] = "none" BY Zenon, <1>1 DEF Core, Underway, OnTrack
<1>4. old \in Ctxs \cup {None} /\ RestTypes BY Zenon, <1>2 DEF Owned, RestTypes
<1>5. /\ sslCtx'[e] = None /\ \A f \in Engines \ {e} : sslCtx'[f] = sslCtx[f]
      /\ sslCtx' \in [Engines -> Ctxs \cup {None}]
  BY Zenon, <1>1, <1>2 DEF Owned, RestTypes
<1>6. Moves(i, "idle") BY Zenon, <1>1, GoesMoves
<1>7. Connected'
  <2> SUFFICES ASSUME NEW k \in Conns PROVE Joined(k)' BY Zenon DEF Connected
  <2>1. Joined(k) BY Zenon DEF Owned, Connected
  <2>2. conn[k] = "accepting" /\ k \notin swapped => sslCtx'[at[k]] = ctx[k] \/ ctx[k] \in orphaned
    <3> HAVE conn[k] = "accepting" /\ k \notin swapped
    <3>1. at[k] \in Engines /\ at[k] # e /\ (sslCtx[at[k]] = ctx[k] \/ ctx[k] \in orphaned)
      BY Zenon, <2>1, <1>3 DEF Joined
    <3> QED BY Zenon, <3>1, <1>5
  <2> QED BY ZenonT(60), <1>1, <2>1, <2>2 DEF Joined
<1>8. Placed'
  <2>1. fresh' = fresh /\ orphaned' = orphaned BY Zenon, <1>1
  <2>2. Placed BY Zenon DEF Owned
  <2>3. None \notin orphaned BY Zenon, <2>2, LifecycleAssumption DEF Placed
  <2>4. orphaned' \subseteq Ctxs BY ZenonT(60), <2>1, <2>2 DEF Placed
  <2>5. \A f, g \in Engines : f # g /\ sslCtx'[f] = sslCtx'[g] => sslCtx'[f] = None
    <3>1. \A f, g \in Engines : f # g /\ sslCtx[f] = sslCtx[g] => sslCtx[f] = None BY Zenon, <2>2 DEF Placed
    <3> TAKE f, g \in Engines
    <3> HAVE f # g /\ sslCtx'[f] = sslCtx'[g]
    <3>2. CASE f = e \/ g = e BY Zenon, <1>5, <3>2
    <3>3. CASE f # e /\ g # e BY Zenon, <1>5, <3>1, <3>3
    <3> QED BY Zenon, <3>2, <3>3
  <2>6. \A j, h \in Isolates : j # h /\ fresh'[j] = fresh'[h] => fresh'[j] = None
    BY Zenon, <2>1, <2>2 DEF Placed
  <2>7. \A f \in Engines, j \in Isolates : sslCtx'[f] = fresh'[j] => fresh'[j] = None
    <3>1. \A f \in Engines, j \in Isolates : sslCtx[f] = fresh[j] => fresh[j] = None
      BY Zenon, <2>2 DEF Placed
    <3> TAKE f \in Engines, j \in Isolates
    <3>2. CASE f = e BY Zenon, <1>5, <3>2
    <3>3. CASE f # e BY Zenon, <1>5, <2>1, <3>1, <3>3
    <3> QED BY Zenon, <3>2, <3>3
  <2>8. \A f \in Engines : sslCtx'[f] \notin orphaned'
    <3>1. \A f \in Engines : sslCtx[f] \notin orphaned BY Zenon, <2>2 DEF Placed
    <3> QED BY Zenon, <1>5, <2>1, <2>3, <3>1
  <2>9. \A j \in Isolates : fresh'[j] \notin orphaned' BY Zenon, <2>1, <2>2 DEF Placed
  <2>10. \A j \in Isolates : fresh'[j] # None <=> pc'[j] = "swap"
    <3>1. \A j \in Isolates : pc'[j] = "swap" <=> pc[j] = "swap" BY Zenon, <1>1, <1>6 DEF Moves
    <3>2. \A j \in Isolates : fresh[j] # None <=> pc[j] = "swap" BY Zenon, <2>2 DEF Placed
    <3> QED BY ZenonT(60), <2>1, <3>1, <3>2
  <2> QED BY ZenonT(60), <2>4, <2>5, <2>6, <2>7, <2>8, <2>9, <2>10 DEF Placed
<1>9. "idle" \notin {"pushing", "claim"} /\ "idle" \notin Starter BY Zenon DEF Starter, Early, Late
<1>10. Pushes' /\ Served' BY ZenonT(60), <1>1, <1>6, <1>9, CallsKept
<1>11. /\ refs' = [y \in Ctxs |-> refs'[y]]
       /\ \A y \in Ctxs : refs'[y] = IF y = old THEN refs[y] - 1 ELSE refs[y]
  <2> HIDE DEF old
  <2> QED BY Zenon, <1>1, <1>4, Dropped
<1>12. Exact' /\ refs' \in [Ctxs -> Nat]
  <2> SUFFICES ASSUME NEW y \in Ctxs PROVE refs'[y] = Total(y)' BY Zenon, <1>11, ExactBy
  <2>1. refs[y] = Total(y) BY Zenon, ExactParts
  <2>2. Used' = Used BY Zenon, <1>1 DEF Used
  <2>3. IsFiniteSet(Engines) BY Zenon, LifecycleAssumption
  <2>4. Shifts(sslCtx, sslCtx', Engines, e, y) BY Zenon, <2>3, <1>2, <1>5, TallyMoves
  <2>5. Total(y)' = Tally(sslCtx', Engines, y) + Tally(fresh, Isolates, y) + Tally(Used, Conns, y) + Stray(y)
    BY Zenon, <1>1, <2>2 DEF Total, Stray
  <2>6. y # None BY ZenonT(60), LifecycleAssumption
  <2>7. CASE y = old
    <3>1. Tally(sslCtx', Engines, y) = Tally(sslCtx, Engines, y) - 1
      BY Zenon, <2>4, <2>6, <2>7, <1>5 DEF Shifts
    <3>2. refs'[y] = refs[y] - 1 BY Zenon, <1>11, <2>7
    <3> QED BY SMTT(30), <2>1, <2>5, <3>1, <3>2, PartsType DEF Total
  <2>8. CASE y # old
    <3>1. Tally(sslCtx', Engines, y) = Tally(sslCtx, Engines, y)
      BY Zenon, <2>4, <2>6, <2>8, <1>5 DEF Shifts
    <3>2. refs'[y] = refs[y] BY Zenon, <1>11, <2>8
    <3> QED BY ZenonT(60), <2>1, <2>5, <3>1, <3>2, PartsType DEF Total
  <2> QED BY Zenon, <2>7, <2>8
<1>13. RestTypes' BY Zenon, <1>1, <1>5, <1>12 DEF Owned, RestTypes
<1> QED BY ZenonT(60), <1>7, <1>8, <1>10, <1>12, <1>13 DEF Owned

\* A connection's step leaves the calls and who owns the contexts alone.
LEMMA CallsApart ==
  ASSUME Types, Owned, UNCHANGED <<pc, on, work, lock, holds, outlived, orphaned, sslCtx, fresh>>,
         \A e \in Engines : loops'[e] = "none" => loops[e] = "none"
  PROVE Placed' /\ Pushes' /\ Served'
BY Zenon, PlacedKept, PushesKept, ServedKept DEF Owned

\* The references it leaves are right when the connections' part is.
LEMMA ExactByUse ==
  ASSUME Owned, UNCHANGED <<sslCtx, fresh, orphaned>>, refs' = [x \in Ctxs |-> refs'[x]],
         \A x \in Ctxs : refs'[x] - refs[x] = Tally(Used', Conns, x) - Tally(Used, Conns, x),
         \A x \in Ctxs : refs'[x] \in Int
  PROVE Exact' /\ refs' \in [Ctxs -> Nat]
<1> SUFFICES ASSUME NEW y \in Ctxs PROVE refs'[y] = Total(y)' BY Zenon, ExactBy
<1>1. refs[y] = Total(y) BY Zenon, ExactParts
<1>2. Total(y)' = Tally(sslCtx, Engines, y) + Tally(fresh, Isolates, y) + Tally(Used', Conns, y) + Stray(y)
  BY Zenon DEF Total, Stray
<1>3. refs'[y] - refs[y] = Tally(Used', Conns, y) - Tally(Used, Conns, y) /\ refs'[y] \in Int BY Zenon
<1> QED BY SMTT(30), <1>1, <1>2, <1>3, PartsType DEF Total

\* onConnection: the new connection has no reference yet.
LEMMA AcceptsOwned == ASSUME Types, Owned, NEW e \in Engines, NEW k \in Conns, Accepts(e, k) PROVE Owned'
<1>1. /\ UNCHANGED <<pc, on, work, lock, holds, outlived, orphaned, sslCtx, fresh, loops, refs,
                     answering, draining, located, misused>>
      /\ loops[e] = "up" /\ conn[k] \in {"new", "closed"}
      /\ conn' = [conn EXCEPT ![k] = IF sslCtx[e] = None THEN "open" ELSE "accepting"]
      /\ at' = [at EXCEPT ![k] = e] /\ ctx' = [ctx EXCEPT ![k] = sslCtx[e]]
      /\ swapped' = swapped \ {k}
  BY Zenon DEF Accepts, registryVars, callVars, engineVars
<1>2. /\ conn'[k] = IF sslCtx[e] = None THEN "open" ELSE "accepting"
      /\ at'[k] = e /\ ctx'[k] = sslCtx[e]
      /\ \A j \in Conns \ {k} : conn'[j] = conn[j] /\ at'[j] = at[j] /\ ctx'[j] = ctx[j]
  BY Zenon, <1>1 DEF Owned, RestTypes
<1>3. RestTypes' BY Zenon, <1>1 DEF Owned, RestTypes
<1>4. Placed' /\ Pushes' /\ Served' BY Zenon, <1>1, CallsApart
<1>5. Connected'
  <2> SUFFICES ASSUME NEW j \in Conns PROVE Joined(j)' BY Zenon DEF Connected
  <2>1. Joined(j) BY Zenon DEF Owned, Connected
  <2>2. CASE j = k
    <3>1. sslCtx[e] \in Ctxs \cup {None} BY Zenon DEF Owned, RestTypes
    <3> QED BY SMTT(30), <2>2, <3>1, <1>1, <1>2 DEF Joined
  <2>3. CASE j # k BY <2>1, <2>3, <1>1, <1>2 DEF Joined
  <2> QED BY Zenon, <2>2, <2>3
<1>6. Used' = Used
  <2>1. \A j \in Conns : (IF conn'[j] = "open" THEN ctx'[j] ELSE None)
                         = (IF conn[j] = "open" THEN ctx[j] ELSE None)
    BY SMTT(30), <1>1, <1>2
  <2> QED BY Zenon, <2>1 DEF Used
<1>7. Exact' BY Zenon, <1>1, <1>6, HoldersTotal DEF Owned, Exact, Total, Stray
<1> QED BY Zenon, <1>3, <1>4, <1>5, <1>7 DEF Owned

\* SSL_new: the connection takes its reference.
LEMMA TlsInitOwned == ASSUME Types, Owned, NEW k \in Conns, TlsInit(k) PROVE Owned'
<1> DEFINE x == ctx[k]
<1>1. /\ UNCHANGED <<pc, on, work, lock, holds, outlived, orphaned, sslCtx, fresh, loops, at, ctx, swapped,
                     answering, draining, located>>
      /\ conn[k] = "accepting" /\ conn' = [conn EXCEPT ![k] = "open"]
      /\ refs' = [refs EXCEPT ![x] = @ + 1]
  BY Zenon DEF TlsInit, registryVars, callVars, engineVars
<1>2. misused' \subseteq {"context", "loop", "race"} BY Zenon DEF TlsInit
<1>3. conn'[k] = "open" /\ (\A j \in Conns \ {k} : conn'[j] = conn[j])
      /\ conn' \in [Conns -> {"new", "accepting", "open", "closed"}]
  BY Zenon, <1>1 DEF Owned, RestTypes
<1>4. Placed' /\ Pushes' /\ Served' BY Zenon, <1>1, CallsApart
<1>5. Connected'
  <2> SUFFICES ASSUME NEW j \in Conns PROVE Joined(j)' BY Zenon DEF Connected
  <2>1. Joined(j) BY Zenon DEF Owned, Connected
  <2> QED BY Zenon, <2>1, <1>1, <1>3 DEF Joined
<1>6. x \in Ctxs /\ x # None
  <2>1. Joined(k) BY Zenon DEF Owned, Connected
  <2> QED BY Zenon, <2>1, <1>1, LifecycleAssumption DEF Joined
<1>7. Used[k] = None /\ Used'[k] = x /\ \A j \in Conns \ {k} : Used'[j] = Used[j]
  BY Zenon, <1>1, <1>3 DEF Used
<1>8. refs \in [Ctxs -> Nat] BY Zenon DEF Owned, RestTypes
<1> HIDE DEF x
<1>9. refs' = [y \in Ctxs |-> refs'[y]] /\ refs'[x] = refs[x] + 1 /\ \A y \in Ctxs \ {x} : refs'[y] = refs[y]
  BY Zenon, <1>1, <1>6, <1>8
<1>10. \A y \in Ctxs : refs'[y] - refs[y] = Tally(Used', Conns, y) - Tally(Used, Conns, y) /\ refs'[y] \in Int
  <2> SUFFICES ASSUME NEW y \in Ctxs
               PROVE refs'[y] - refs[y] = Tally(Used', Conns, y) - Tally(Used, Conns, y) /\ refs'[y] \in Int
    BY Zenon
  <2>1. IsFiniteSet(Conns) /\ y # None BY Zenon, LifecycleAssumption
  <2>2. Shifts(Used, Used', Conns, k, y) BY Zenon, <2>1, <1>7, TallyMoves
  <2>3. CASE y = x
    <3>1. Tally(Used', Conns, y) = Tally(Used, Conns, y) + 1 BY Zenon, <2>2, <2>1, <2>3, <1>7 DEF Shifts
    <3> QED BY SMTT(30), <3>1, <2>3, <1>8, <1>9, PartsType
  <2>4. CASE y # x
    <3>1. Tally(Used', Conns, y) = Tally(Used, Conns, y) BY Zenon, <2>2, <2>1, <2>4, <1>7 DEF Shifts
    <3> QED BY SMTT(30), <3>1, <2>4, <1>8, <1>9, PartsType
  <2> QED BY Zenon, <2>3, <2>4
<1>11. Exact' /\ refs' \in [Ctxs -> Nat] BY Zenon, <1>1, <1>9, <1>10, ExactByUse
<1>12. RestTypes' BY Zenon, <1>1, <1>2, <1>3, <1>11 DEF Owned, RestTypes
<1> QED BY ZenonT(60), <1>4, <1>5, <1>11, <1>12 DEF Owned

\* onCloseConn: SSL_free gives the reference back.
LEMMA CloseOwned == ASSUME Types, Owned, NEW k \in Conns, CloseConn(k) PROVE Owned'
<1> DEFINE x == ctx[k]
<1>1. /\ UNCHANGED <<pc, on, work, lock, holds, outlived, orphaned, sslCtx, fresh, loops, swapped,
                     answering, draining, misused>>
      /\ conn[k] = "open" /\ located' = located \ {k}
      /\ conn' = [conn EXCEPT ![k] = "closed"] /\ at' = [at EXCEPT ![k] = None]
      /\ ctx' = [ctx EXCEPT ![k] = None]
      /\ IF x = None THEN UNCHANGED refs ELSE Drop(x)
  BY Zenon DEF CloseConn, LoopRuns, registryVars, callVars, engineVars, historyVars
<1>2. /\ conn'[k] = "closed" /\ at'[k] = None /\ ctx'[k] = None
      /\ \A j \in Conns \ {k} : conn'[j] = conn[j] /\ at'[j] = at[j] /\ ctx'[j] = ctx[j]
  BY Zenon, <1>1 DEF Owned, RestTypes
<1>3. /\ conn' \in [Conns -> {"new", "accepting", "open", "closed"}]
      /\ at' \in [Conns -> Engines \cup {None}] /\ ctx' \in [Conns -> Ctxs \cup {None}]
      /\ located' \subseteq Conns
  BY Zenon, <1>1 DEF Owned, RestTypes
<1>4. Placed' /\ Pushes' /\ Served' BY Zenon, <1>1, CallsApart
<1>5. Connected'
  <2> SUFFICES ASSUME NEW j \in Conns PROVE Joined(j)' BY Zenon DEF Connected
  <2>1. Joined(j) BY Zenon DEF Owned, Connected
  <2>2. CASE j = k BY ZenonT(60), <2>2, <1>2 DEF Joined
  <2>3. CASE j # k BY SMTT(30), <2>1, <2>3, <1>1, <1>2 DEF Joined
  <2> QED BY Zenon, <2>2, <2>3
<1>6. x \in Ctxs \cup {None} /\ RestTypes BY Zenon DEF Owned, RestTypes
<1>7. Used[k] = x /\ Used'[k] = None /\ \A j \in Conns \ {k} : Used'[j] = Used[j]
  BY Zenon, <1>1, <1>2 DEF Used
<1>8. refs \in [Ctxs -> Nat] BY Zenon DEF Owned, RestTypes
<1> HIDE DEF x
<1>9. /\ refs' = [y \in Ctxs |-> refs'[y]]
      /\ \A y \in Ctxs : refs'[y] = IF y = x THEN refs[y] - 1 ELSE refs[y]
  BY Zenon, <1>1, <1>6, Dropped
<1>10. \A y \in Ctxs : refs'[y] - refs[y] = Tally(Used', Conns, y) - Tally(Used, Conns, y) /\ refs'[y] \in Int
  <2> SUFFICES ASSUME NEW y \in Ctxs
               PROVE refs'[y] - refs[y] = Tally(Used', Conns, y) - Tally(Used, Conns, y) /\ refs'[y] \in Int
    BY Zenon
  <2>1. IsFiniteSet(Conns) /\ y # None BY Zenon, LifecycleAssumption
  <2>2. Shifts(Used, Used', Conns, k, y) BY Zenon, <2>1, <1>7, TallyMoves
  <2>3. CASE y = x
    <3>1. Tally(Used', Conns, y) = Tally(Used, Conns, y) - 1 BY ZenonT(60), <2>2, <2>1, <2>3, <1>7 DEF Shifts
    <3> QED BY SMTT(30), <3>1, <2>3, <1>8, <1>9, PartsType
  <2>4. CASE y # x
    <3>1. Tally(Used', Conns, y) = Tally(Used, Conns, y) BY Zenon, <2>2, <2>1, <2>4, <1>7 DEF Shifts
    <3> QED BY SMTT(30), <3>1, <2>4, <1>8, <1>9, PartsType
  <2> QED BY Zenon, <2>3, <2>4
<1>11. Exact' /\ refs' \in [Ctxs -> Nat] BY Zenon, <1>1, <1>9, <1>10, ExactByUse
<1>12. RestTypes' BY Zenon, <1>1, <1>3, <1>11 DEF Owned, RestTypes
<1> QED BY Zenon, <1>4, <1>5, <1>11, <1>12 DEF Owned

\* The loop ends: each of its connections is open, and gives its reference back.
LEMMA EndsOwned == ASSUME Types, Owned, NEW e \in Engines, LoopEnds(e) PROVE Owned'
<1> DEFINE mine == {k \in Conns : at[k] = e}
<1>1. /\ UNCHANGED <<pc, on, work, lock, holds, outlived, orphaned, sslCtx, fresh, swapped,
                     answering, draining, misused>>
      /\ loops[e] = "stopping" /\ loops' = [loops EXCEPT ![e] = "down"]
      /\ \A k \in mine : conn[k] # "accepting"
      /\ conn' = [k \in Conns |-> IF k \in mine THEN "closed" ELSE conn[k]]
      /\ at' = [k \in Conns |-> IF k \in mine THEN None ELSE at[k]]
      /\ ctx' = [k \in Conns |-> IF k \in mine THEN None ELSE ctx[k]]
      /\ located' = located \ mine
      /\ refs' = [x \in Ctxs |-> refs[x] - Cardinality({k \in mine : ctx[k] = x})]
  BY Zenon DEF LoopEnds, registryVars, callVars, historyVars
<1>2. /\ \A k \in mine : conn'[k] = "closed" /\ at'[k] = None /\ ctx'[k] = None
      /\ \A k \in Conns \ mine : conn'[k] = conn[k] /\ at'[k] = at[k] /\ ctx'[k] = ctx[k]
  BY Zenon, <1>1
<1>3. /\ conn' \in [Conns -> {"new", "accepting", "open", "closed"}]
      /\ at' \in [Conns -> Engines \cup {None}] /\ ctx' \in [Conns -> Ctxs \cup {None}]
      /\ located' \subseteq Conns
  BY Zenon, <1>1 DEF Owned, RestTypes
<1>4. \A f \in Engines : /\ f # e => loops'[f] = loops[f]
                         /\ loops'[f] = "none" => loops[f] = "none"
  BY Zenon, <1>1 DEF Types
<1>5. Placed' /\ Pushes' /\ Served' BY Zenon, <1>1, <1>4, CallsApart
<1>6. Connected'
  <2> SUFFICES ASSUME NEW k \in Conns PROVE Joined(k)' BY Zenon DEF Connected
  <2>1. Joined(k) BY Zenon DEF Owned, Connected
  <2>2. CASE k \in mine BY Zenon, <2>2, <1>2 DEF Joined
  <2>3. CASE k \notin mine
    <3>1. at[k] # e /\ conn'[k] = conn[k] /\ at'[k] = at[k] /\ ctx'[k] = ctx[k] BY Zenon, <2>3, <1>2
    <3> QED BY Zenon, <2>1, <3>1, <1>1, <1>4 DEF Joined
  <2> QED BY Zenon, <2>2, <2>3
<1>7. \A k \in mine : conn[k] = "open"
  <2> SUFFICES ASSUME NEW k \in mine PROVE conn[k] = "open" BY Zenon
  <2>1. Joined(k) /\ conn[k] \in {"new", "accepting", "open", "closed"} BY Zenon DEF Owned, Connected, RestTypes
  <2>2. e # None BY Zenon, LifecycleAssumption
  <2> QED BY Zenon, <1>1, <2>1, <2>2 DEF Joined
<1>8. /\ \A k \in mine : Used[k] = ctx[k] /\ Used'[k] = None
      /\ \A k \in Conns \ mine : Used'[k] = Used[k]
  BY Zenon, <1>2, <1>7 DEF Used
<1>9. refs \in [Ctxs -> Nat] /\ mine \in SUBSET Conns BY Zenon DEF Owned, RestTypes
<1> HIDE DEF mine
<1>10. refs' = [y \in Ctxs |-> refs'[y]] BY Zenon, <1>1
<1>11. \A y \in Ctxs : refs'[y] - refs[y] = Tally(Used', Conns, y) - Tally(Used, Conns, y) /\ refs'[y] \in Int
  <2> SUFFICES ASSUME NEW y \in Ctxs
               PROVE refs'[y] - refs[y] = Tally(Used', Conns, y) - Tally(Used, Conns, y) /\ refs'[y] \in Int
    BY Zenon
  <2>1. IsFiniteSet(Conns) /\ y # None BY Zenon, LifecycleAssumption
  <2>2. \A k \in mine : Used'[k] # y BY Zenon, <2>1, <1>8
  <2>3. Tally(Used', Conns, y) = Tally(Used, Conns, y) - Tally(Used, mine, y)
    <3>1. IsFiniteSet(Conns) /\ mine \in SUBSET Conns BY Zenon, <2>1, <1>9
    <3>2. \A k \in Conns \ mine : Used'[k] = Used[k] BY Zenon, <1>8
    <3> HIDE DEF Used
    <3> QED BY ONLY SMTT(30), <3>1, <3>2, <2>2, TallyDrops
  <2>4. {k \in mine : Used[k] = y} = {k \in mine : ctx[k] = y} BY Zenon, <1>8
  <2>5. refs'[y] = refs[y] - Tally(Used, mine, y) BY Zenon, <1>1, <2>4 DEF Tally
  <2>6. Tally(Used, mine, y) \in Nat BY Zenon, <2>1, <1>9, FS_Subset, TallyType
  <2> QED BY SMTT(30), <2>3, <2>5, <2>6, <1>9, PartsType
<1>12. Exact' /\ refs' \in [Ctxs -> Nat] BY Zenon, <1>1, <1>10, <1>11, ExactByUse
<1>13. RestTypes' BY Zenon, <1>1, <1>3, <1>12 DEF Owned, RestTypes
<1> QED BY Zenon, <1>5, <1>6, <1>12, <1>13 DEF Owned

\* A step that does nothing.
LEMMA StutterOwned == ASSUME Owned, UNCHANGED vars PROVE Owned'
<1>1. UNCHANGED ctxVars /\ UNCHANGED <<pc, on, loops, outlived, work, lock, holds>>
  BY Zenon DEF vars, ctxVars, registryVars, callVars, engineVars, connVars, historyVars
<1>a. Pushes' /\ Served' BY Zenon, <1>1 DEF Owned, Pushes, Served
<1>2. Connected' /\ Placed' /\ Exact' BY Zenon, <1>1, Untouched
<1>3. RestTypes' BY Zenon DEF Owned, RestTypes, vars, registryVars, callVars, engineVars, connVars, historyVars
<1> QED BY Zenon, <1>a, <1>2, <1>3 DEF Owned

\* Every step.
LEMMA OwnedStep == ASSUME Inv, Owned, [Next]_vars PROVE Owned'
<1>1. Types BY Zenon DEF Inv
<1>2. CASE UNCHANGED vars BY Zenon, <1>2, StutterOwned
<1>3. ASSUME NEW i \in Isolates, \/ (\E e \in Engines : Resolve(i, e)) \/ ResetAll(i) \/ ResetStep(i)
      PROVE Owned'
  BY ZenonT(60), <1>1, <1>3, ResolveOwned, ResetOwned, CallsOwned DEF ResetStep
<1>4. ASSUME NEW i \in Isolates, Starts(i) \/ StartStep(i) PROVE Owned'
  BY ZenonT(60), <1>1, <1>4, CallsOwned, SetsUpOwned, StartOwned DEF StartStep
<1>5. ASSUME NEW i \in Isolates, Stops(i) \/ StopStep(i) PROVE Owned'
  <2>1. CASE StopReleases(i)
    <3>1. Core BY Zenon, <2>1 DEF Inv, StopReleases, Goes
    <3> QED BY Zenon, <1>1, <2>1, <3>1, ReleasesOwned
  <2> QED BY ZenonT(60), <1>1, <1>5, <2>1, CallsOwned, ClaimsOwned, JoinsOwned DEF StopStep
<1>6. ASSUME NEW i \in Isolates, BeginDrain(i) PROVE Owned' BY Zenon, <1>1, <1>6, QuietOwned
<1>7. ASSUME NEW i \in Isolates, Reloads(i) \/ ReloadBuilds(i) \/ ReloadSwaps(i) PROVE Owned'
  BY Zenon, <1>1, <1>7, CallsOwned, BuildsOwned, SwapsOwned
<1>8. ASSUME NEW i \in Isolates, Responds(i) \/ RespondLooks(i) \/ RespondPushes(i) PROVE Owned'
  BY Zenon, <1>1, <1>8, CallsOwned, LooksOwned, RespondPushesOwned
<1>9. ASSUME NEW e \in Engines, LoopEnds(e) \/ \E k \in Conns : Accepts(e, k) PROVE Owned'
  BY Zenon, <1>1, <1>9, EndsOwned, AcceptsOwned
<1>10. ASSUME NEW k \in Conns, TlsInit(k) \/ Dispatches(k) \/ CloseConn(k) PROVE Owned'
  BY ZenonT(60), <1>1, <1>10, TlsInitOwned, QuietOwned, CloseOwned
<1> QED BY ZenonT(60), <1>2, <1>3, <1>4, <1>5, <1>6, <1>7, <1>8, <1>9, <1>10 DEF Next

\* And the first state.
LEMMA OwnedInitially == ASSUME Init PROVE Owned
<1>1. RestTypes BY Zenon, LifecycleAssumption DEF Init, RestTypes
<1>2. Connected BY Zenon DEF Init, Connected, Joined
<1>3. None \notin Ctxs BY Zenon, LifecycleAssumption
<1>4. Placed BY Zenon, <1>3 DEF Init, Placed
<1>5. Pushes /\ Served BY Zenon DEF Init, Pushes, Served, Starter, Early, Late
<1>6. Exact
  <2> SUFFICES ASSUME NEW x \in Ctxs PROVE refs[x] = Holders(x) BY Zenon DEF Exact
  <2>1. x # None BY Zenon, <1>3
  <2>2. /\ {e \in Engines : sslCtx[e] = x} = {} /\ {i \in Isolates : fresh[i] = x} = {}
        /\ {k \in Conns : ctx[k] = x /\ conn[k] = "open"} = {}
    BY Zenon, <2>1 DEF Init
  <2>3. refs[x] = 0 /\ x \notin orphaned BY Zenon DEF Init
  <2> QED BY <2>2, <2>3, FS_EmptySet DEF Holders
<1> QED BY Zenon, <1>1, <1>2, <1>4, <1>5, <1>6 DEF Owned

\* Contexts, connections and calls stay as Owned says, whatever happens.
THEOREM OwnedAlways == Spec => [](Inv /\ Owned)
<1>1. Init => Inv /\ Owned BY Zenon, Initially, OwnedInitially
<1>2. Inv /\ Owned /\ [Next]_vars => (Inv /\ Owned)' BY Zenon, Step, OwnedStep
<1> QED BY <1>1, <1>2, PTL DEF Spec

\* A context has as many references as owners, even when the program has met
\* undefined behaviour: SSL_CTX_free and SSL_free never free one in use, and the
\* last of them always frees it.
THEOREM RefsAlwaysExact == Spec => []RefsExact
<1>1. Inv /\ Owned => RefsExact BY Zenon DEF Inv, Types, Owned, RestTypes, Exact, RefsExact, TypeOK
<1> QED BY <1>1, OwnedAlways, PTL

\* What OnlyInWindows says of a step.
InWindow ==
  /\ "context" \in misused' => \E k \in swapped : conn[k] = "accepting"
  /\ "loop" \in misused' => \E i \in outlived : pc[i] = "pushing"
  /\ "race" \in misused' => lock # None /\ Starting(on[lock])

\* SSL_new on a freed context: were the context still the engine's, or one that
\* was stored over, it would have a reference.
LEMMA TlsInitWindow == ASSUME Owned, NEW k \in Conns, TlsInit(k) PROVE InWindow
<1>1. conn[k] = "accepting" /\ misused' = IF refs[ctx[k]] = 0 THEN {"context"} ELSE {} BY Zenon DEF TlsInit
<1>2. "loop" \notin misused' /\ "race" \notin misused' BY Zenon, <1>1
<1>3. ASSUME "context" \in misused' PROVE k \in swapped
  <2> SUFFICES ASSUME k \notin swapped PROVE FALSE BY Zenon
  <2> DEFINE x == ctx[k]
  <2>1. refs[x] = 0 BY Zenon, <1>1, <1>3
  <2>2. Joined(k) BY Zenon DEF Owned, Connected
  <2>3. x \in Ctxs /\ at[k] \in Engines /\ (sslCtx[at[k]] = x \/ x \in orphaned) BY Zenon, <1>1, <2>2 DEF Joined
  <2> HIDE DEF x
  <2>4. Total(x) = 0 BY ZenonT(60), <2>1, <2>3, ExactParts
  <2>5. Tally(sslCtx, Engines, x) = 0 /\ Stray(x) = 0 BY SMTT(30), <2>3, <2>4, PartsType DEF Total
  <2>6. x \notin orphaned BY <2>5 DEF Stray
  <2>7. IsFiniteSet(Engines) BY Zenon, LifecycleAssumption
  <2>8. {e \in Engines : sslCtx[e] = x} = {} BY Zenon, <2>5, <2>7, FS_Subset, FS_EmptySet DEF Tally
  <2> QED BY Zenon, <2>3, <2>6, <2>8
<1> QED BY Zenon, <1>1, <1>2, <1>3 DEF InWindow

\* pushWrite() on a loop that is gone.
LEMMA PushesWindow == ASSUME Owned, NEW i \in Isolates, RespondPushes(i) PROVE InWindow
<1>1. pc[i] = "pushing" /\ misused' = IF loops[on[i]] = "none" THEN {"loop"} ELSE {} BY Zenon DEF RespondPushes
<1>2. "context" \notin misused' /\ "race" \notin misused' BY Zenon, <1>1
<1>3. "loop" \in misused' => i \in outlived BY Zenon, <1>1 DEF Owned, Pushes
<1> QED BY Zenon, <1>1, <1>2, <1>3 DEF InWindow

\* stop() beside a start(): the stop is a reset's, since the isolate that serves
\* an engine does not start and stop it at once.
LEMMA ClaimsWindow == ASSUME Types, Owned, NEW i \in Isolates, StopClaims(i) PROVE InWindow
<1>1. pc[i] = "claim" /\ misused' = IF running[on[i]] /\ Starting(on[i]) THEN {"race"} ELSE {}
  BY Zenon DEF StopClaims
<1>2. "context" \notin misused' /\ "loop" \notin misused' BY Zenon, <1>1
<1>3. ASSUME "race" \in misused' PROVE lock # None /\ Starting(on[lock])
  <2>1. Starting(on[i]) BY Zenon, <1>1, <1>3
  <2>2. PICK j \in Isolates : on[j] = on[i] /\ pc[j] \in {"tls", "reserve", "bind", "loops"}
    BY Zenon, <2>1 DEF Starting
  <2>3. pc[j] \in Starter /\ j # i BY Zenon, <1>1, <2>2 DEF Starter, Early, Late
  <2>4. on[i] \in Engines /\ on[i] # None BY Zenon, <1>1, LifecycleAssumption DEF Types
  <2>5. lock = i
    <3> SUFFICES ASSUME lock # i PROVE FALSE BY Zenon
    <3>1. "serve" \in work.may[i] /\ on[i] = holds[i] BY Zenon, <1>1 DEF Owned, Served
    <3>2. "serve" \in work.may[j] /\ on[j] = holds[j] BY Zenon, <2>3 DEF Owned, Served
    <3> QED BY ZenonT(60), <2>2, <2>3, <2>4, <3>1, <3>2 DEF Owned, Served
  <2>6. i # None BY Zenon, LifecycleAssumption
  <2> QED BY Zenon, <2>1, <2>5, <2>6
<1> QED BY Zenon, <1>2, <1>3 DEF InWindow

\* Nothing else is misused.
LEMMA StepsWindow == ASSUME Inv, Owned, Next PROVE InWindow
<1>1. Types BY Zenon DEF Inv
<1>2. ASSUME misused' = misused, Defined PROVE InWindow
  <2>1. misused' = {} BY Zenon, <1>2 DEF Defined
  <2> QED BY Zenon, <2>1 DEF InWindow
<1> HIDE DEF InWindow
<1> USE DEF registryVars, callVars, engineVars, connVars, historyVars, Goes, Calls
<1>3. ASSUME NEW i \in Isolates,
             \/ \E e \in Engines : Resolve(i, e)
             \/ ResetAll(i) \/ ResetStep(i) \/ Starts(i) \/ Stops(i) \/ BeginDrain(i)
      PROVE misused' = misused /\ Defined
  BY Zenon, <1>3 DEF Resolve, ResetAll, ResetStep, ResetStops, ResetEnds, Starts, Stops, BeginDrain
<1>4. ASSUME NEW i \in Isolates, StartStep(i) PROVE misused' = misused /\ Defined
  BY Zenon, <1>4 DEF StartStep, StartSetsUpTls, StartReserves, StartBinds, StartFails, StartLoops
<1>5. ASSUME NEW i \in Isolates, StopJoins(i) \/ StopReleases(i) PROVE misused' = misused /\ Defined
  BY Zenon, <1>5 DEF StopJoins, StopReleases
<1>6. ASSUME NEW i \in Isolates,
             Reloads(i) \/ ReloadBuilds(i) \/ ReloadSwaps(i) \/ Responds(i) \/ RespondLooks(i)
      PROVE misused' = misused /\ Defined
  BY Zenon, <1>6 DEF Reloads, ReloadBuilds, ReloadSwaps, Responds, RespondLooks
<1>7. ASSUME \/ \E e \in Engines : LoopEnds(e) \/ \E k \in Conns : Accepts(e, k)
             \/ \E k \in Conns : Dispatches(k) \/ CloseConn(k)
      PROVE misused' = misused /\ Defined
  BY Zenon, <1>7 DEF LoopEnds, Accepts, Dispatches, CloseConn, LoopRuns
<1> HIDE DEF registryVars, callVars, engineVars, connVars, historyVars, Goes, Calls
<1> QED BY ZenonT(60), <1>1, <1>2, <1>3, <1>4, <1>5, <1>6, <1>7, TlsInitWindow, PushesWindow, ClaimsWindow
        DEF Next, StopStep

\* A freed context, a freed loop, or loops_ and reservedPort_ without a lock are
\* touched in three windows only: a reload that swaps the context between its
\* load and SSL_new in tlsInit, an answer that outlived a stop(), and a reset
\* that stops an engine another isolate is starting.
THEOREM UndefinedOnlyInWindows == Spec => OnlyInWindows
<1>1. Inv /\ Owned /\ [Next]_vars => [InWindow]_vars BY Zenon, StepsWindow
<1>2. [](Inv /\ Owned) /\ [][Next]_vars => [][InWindow]_vars BY <1>1, PTL
<1>3. Spec => [][InWindow]_vars BY <1>2, OwnedAlways, PTL DEF Spec
<1> QED BY Zenon, <1>3 DEF OnlyInWindows, InWindow
=============================================================================
