---------------------- MODULE DispatchControllerProofs ----------------------
(***************************************************************************)
(* For any isolates, loads and pinned widths: the controller's fields stay  *)
(* in range, nextEmitter always indexes a registered emitter, and after a   *)
(* hot restart the deal stays clear of the isolates that are gone.          *)
(***************************************************************************)
EXTENDS DispatchController, TLAPS

\* The emitters a hot restart left behind come before the ones registered
\* since, and none is registered twice.
StaleFirst ==
    /\ \A i, j \in 1 .. Len(emitters) :
          i < j /\ emitters[i] \notin stale => emitters[j] \notin stale
    /\ \A i, j \in 1 .. Len(emitters) : emitters[i] = emitters[j] => i = j

\* Under a steady load the emitters are the ones registered at the start.
SteadySinks == steady => emitters = Registered

Core == TypeOK /\ ProbeIsMeasured /\ StaleFirst

IInv == Core /\ SteadySinks

USE DEF kSaturatedBacklog, kDwellMin, kDwellMax

\* A step leads to a positive width.
LEMMA StepPositive ==
    ASSUME NEW w \in Nat \ {0}, NEW d \in {1, -1}, NEW m \in Nat, m > 1
    PROVE  Step(w, d, m) \in Nat \ {0}
  BY DEF Step, Least, Most

\* Init establishes the invariant.
LEMMA InitIInv == Init => IInv
  <1> SUFFICES ASSUME Init PROVE IInv
    OBVIOUS
  <1>1. dispatchWidth \in Nat /\ ctlEnabled \in BOOLEAN
    <2>1. Pins \subseteq Nat
      BY SetsAssumption
    <2>2. CASE ctlEnabled = TRUE /\ dispatchWidth = 1
      BY <2>2
    <2>3. CASE ctlEnabled = FALSE /\ dispatchWidth \in Pins
      BY <2>1, <2>3, Zenon
    <2>4. QED
      BY <2>2, <2>3, Zenon DEF Init
  <1>2. emitters \in Seq(Emitters) /\ rate \in Rates
    BY SetsAssumption DEF Init
  <1>3. TypeOK
    <2>1. stale \in SUBSET Emitters /\ probing \in BOOLEAN /\ steady \in BOOLEAN
      BY Zenon DEF Init
    <2>2. /\ width = 1 /\ probe = 1 /\ baseRate = -1 /\ dir = 1 /\ dwell = 0
          /\ dwellTarget = 4 /\ rr = 0
      BY DEF Init
    <2>3. QED
      BY <1>1, <1>2, <2>1, <2>2 DEF TypeOK
  <1>4. ProbeIsMeasured
    BY DEF Init, ProbeIsMeasured
  <1>5. StaleFirst
    BY SetsAssumption DEF Init, StaleFirst
  <1>6. QED
    BY <1>3, <1>4, <1>5 DEF Init, IInv, Core, SteadySinks

\* Observing keeps the controller in range.
LEMMA ObserveStep ==
    ASSUME TypeOK, ProbeIsMeasured, NEW answers \in Nat, ~probing, Len(emitters) > 1,
           Observe(answers, Len(emitters)),
           UNCHANGED <<ctlEnabled, emitters, stale, rr, steady, rate>>
    PROVE  TypeOK' /\ ProbeIsMeasured'
  <1> DEFINE heading == IF dir > 0 /\ width >= Len(emitters) THEN -1
                        ELSE IF dir < 0 /\ width <= 1 THEN 1 ELSE dir
             next == Step(width, heading, Len(emitters))
  <1>1. width \in Nat \ {0} /\ dir \in {1, -1} /\ Len(emitters) \in Nat
    BY DEF TypeOK
  <1>2. heading \in {1, -1}
    BY <1>1
  <1>3. next \in Nat \ {0}
    BY <1>1, <1>2, StepPositive
  <1>4. CASE dwell + 1 < dwellTarget
    <2>1. /\ baseRate' = answers /\ dwell' = dwell + 1 /\ dispatchWidth' = width
          /\ UNCHANGED <<width, dwellTarget, probe, probing, dir>>
      BY <1>4 DEF Observe, TypeOK
    <2>2. QED
      BY <1>1, <1>4, <2>1 DEF TypeOK, ProbeIsMeasured
  <1>5. CASE dwell + 1 >= dwellTarget
    <2>1. /\ baseRate' = answers /\ dwell' = 0 /\ dir' = heading /\ dispatchWidth' = next
          /\ UNCHANGED <<width, dwellTarget>>
          /\ probing' = (next # width)
          /\ probe' = IF next # width THEN next ELSE probe
      BY <1>5 DEF Observe, TypeOK
    <2> HIDE DEF heading, next
    <2>2. probing' \in BOOLEAN /\ probe' \in Nat \ {0} /\ (probing' => probe' # width')
      BY <1>3, <2>1 DEF TypeOK
    <2>3. QED
      BY <1>1, <1>2, <1>3, <2>1, <2>2 DEF TypeOK, ProbeIsMeasured
  <1>6. QED
    BY <1>4, <1>5 DEF TypeOK

\* Committing a step keeps the controller in range.
LEMMA CommitStep ==
    ASSUME TypeOK, ProbeIsMeasured, NEW answers \in Nat, Len(emitters) > 1,
           Commit(answers, Len(emitters)),
           UNCHANGED <<ctlEnabled, emitters, stale, rr, steady, rate>>
    PROVE  TypeOK' /\ ProbeIsMeasured'
  <1> DEFINE next == Step(probe, dir, Len(emitters))
  <1>1. probe \in Nat \ {0} /\ dir \in {1, -1} /\ Len(emitters) \in Nat
    BY DEF TypeOK
  <1>2. next \in Nat \ {0}
    BY <1>1, StepPositive
  <1>3. /\ width' = probe /\ baseRate' = answers /\ dwellTarget' = 4 /\ probe' = next
        /\ dispatchWidth' = next /\ UNCHANGED <<dir, dwell>> /\ probing' = (next # probe)
    BY DEF Commit
  <1> HIDE DEF next
  <1>4. probing' \in BOOLEAN /\ (probing' => probe' # width')
    BY <1>3, Zenon
  <1>5. QED
    BY <1>1, <1>2, <1>3, <1>4 DEF TypeOK, ProbeIsMeasured

\* A tick keeps the invariant.
LEMMA TickStep ==
    ASSUME Core, NEW answers, Len(emitters) > 1 => answers \in Nat, NEW backlog, Tick(answers, backlog)
    PROVE  Core'
  <1> USE DEF Core
  <1>1. UNCHANGED <<ctlEnabled, emitters, stale, rr, steady, rate>>
    BY DEF Tick, sinks, load
  <1>2. StaleFirst'
    BY <1>1 DEF StaleFirst
  <1>3. Len(emitters) \in Nat
    BY DEF TypeOK
  <1>4. CASE dispatchWidth' = 1 /\ UNCHANGED controller
    <2>1. TypeOK' /\ ProbeIsMeasured'
      BY <1>1, <1>4 DEF controller, TypeOK, ProbeIsMeasured
    <2>2. QED
      BY <1>2, <2>1
  <1>5. CASE Reset
    <2>1. TypeOK' /\ ProbeIsMeasured'
      <3>1. /\ width' = 1 /\ probe' = 1 /\ baseRate' = -1 /\ dir' = 1 /\ dwell' = 0
            /\ dwellTarget' = 4 /\ dispatchWidth' = 1
        BY <1>5 DEF Reset
      <3>2. probing' = FALSE
        BY <1>5 DEF Reset
      <3>3. ProbeIsMeasured'
        BY <3>2 DEF ProbeIsMeasured
      <3>4. baseRate' \in Nat \cup {-1} /\ width' \in Nat \ {0} /\ probe' \in Nat \ {0}
        BY <3>1
      <3>5. dir' \in {1, -1} /\ dwell' \in 0 .. 49 /\ dwellTarget' \in 4 .. 50
        BY <3>1
      <3>6. probing' \in BOOLEAN /\ dispatchWidth' \in Nat
        BY <3>1, <3>2, Zenon
      <3>7. TypeOK'
        BY <1>1, <3>4, <3>5, <3>6 DEF TypeOK
      <3>8. QED
        BY <3>3, <3>7
    <2>2. QED
      BY <1>2, <2>1
  <1>6. CASE Len(emitters) > 1 /\ ~probing /\ Observe(answers, Len(emitters))
    BY <1>1, <1>2, <1>6, ObserveStep
  <1>7. CASE Len(emitters) > 1 /\ Commit(answers, Len(emitters))
    BY <1>1, <1>2, <1>7, CommitStep
  <1>8. CASE Revert
    <2>1. TypeOK' /\ ProbeIsMeasured'
      <3>1. /\ UNCHANGED <<width, probe, baseRate, dwell>> /\ dir' = -dir
            /\ dwellTarget' = Least(50, 2 * dwellTarget) /\ dispatchWidth' = width
        BY <1>8 DEF Revert
      <3>2. probing' = FALSE
        BY <1>8 DEF Revert
      <3>3. dwellTarget' \in 4 .. 50 /\ dir' \in {1, -1}
        BY <3>1 DEF TypeOK, Least
      <3>4. QED
        BY <1>1, <3>1, <3>2, <3>3, Zenon DEF TypeOK, ProbeIsMeasured
    <2>2. QED
      BY <1>2, <2>1
  <1>9. QED
    BY <1>4, <1>5, <1>6, <1>7, <1>8 DEF Tick

\* A sink registered at the back keeps the stale ones in front.
LEMMA AddEmitterStep ==
    ASSUME Core, NEW e \in Emitters, AddEmitter(e)
    PROVE  Core'
  <1> USE DEF Core, AddEmitter
  <1>1. emitters \in Seq(Emitters) /\ Len(emitters) \in Nat /\ stale \in SUBSET Emitters
    BY DEF TypeOK
  <1>2. /\ emitters' \in Seq(Emitters) /\ Len(emitters') = Len(emitters) + 1
        /\ emitters'[Len(emitters) + 1] = e
        /\ \A i \in 1 .. Len(emitters) : emitters'[i] = emitters[i]
    BY <1>1
  <1>3. TypeOK' /\ ProbeIsMeasured'
    BY <1>1, <1>2 DEF TypeOK, ProbeIsMeasured, controller, load
  <1>4. StaleFirst'
    BY <1>1, <1>2 DEF StaleFirst
  <1>5. QED
    BY <1>3, <1>4

\* Detaching a sink keeps the order of the others.
LEMMA RemoveEmitterStep ==
    ASSUME Core, NEW e \in Emitters, RemoveEmitter(e)
    PROVE  Core'
  <1> USE DEF Core
  <1>1. emitters \in Seq(Emitters) /\ Len(emitters) \in Nat /\ stale \in SUBSET Emitters
    BY DEF TypeOK
  <1>2. PICK k \in 1 .. Len(emitters) :
           /\ emitters[k] = e
           /\ emitters' = [j \in 1 .. Len(emitters) - 1 |->
                             IF j < k THEN emitters[j] ELSE emitters[j + 1]]
    BY DEF RemoveEmitter
  <1>3. Len(emitters) - 1 \in Nat
    BY <1>1, <1>2
  <1>4. \A j \in 1 .. Len(emitters) - 1 : (IF j < k THEN emitters[j] ELSE emitters[j + 1]) \in Emitters
    BY <1>1, <1>2
  <1>5. emitters' \in Seq(Emitters) /\ Len(emitters') = Len(emitters) - 1
    BY <1>2, <1>3, <1>4
  <1>6. \A j \in 1 .. Len(emitters) - 1 :
           emitters'[j] = IF j < k THEN emitters[j] ELSE emitters[j + 1]
    BY <1>2
  <1>7. TypeOK' /\ ProbeIsMeasured'
    BY <1>1, <1>5 DEF RemoveEmitter, TypeOK, ProbeIsMeasured, controller, load
  <1>8. stale' = stale \ {e}
    BY DEF RemoveEmitter
  <1>9. StaleFirst'
    <2> DEFINE At(j) == IF j < k THEN j ELSE j + 1
    <2>1. \A j \in 1 .. Len(emitters') : /\ At(j) \in 1 .. Len(emitters) /\ At(j) # k
                                        /\ emitters'[j] = emitters[At(j)]
      BY <1>1, <1>2, <1>5, <1>6
    <2>2. \A i, j \in 1 .. Len(emitters') : (i < j => At(i) < At(j)) /\ (At(i) = At(j) => i = j)
      BY <1>2, <1>5
    <2> HIDE DEF At
    <2>3. \A j \in 1 .. Len(emitters') : emitters'[j] # e
      BY <1>2, <2>1 DEF StaleFirst
    <2>4. QED
      BY <1>8, <2>1, <2>2, <2>3, ZenonT(30) DEF StaleFirst
  <1>10. QED
    BY <1>7, <1>9

\* A steady tick samples a rate of the workload.
LEMMA SteadySample ==
    ASSUME IInv, steady, Len(emitters) > 1
    PROVE  rate[DealWidth] \in Nat
  <1>1. /\ emitters = Registered /\ rate \in Rates /\ dispatchWidth \in Nat
        /\ Len(emitters) \in Nat
    BY DEF IInv, Core, TypeOK, SteadySinks
  <1>2. DealWidth \in 1 .. Len(Registered)
    BY <1>1 DEF DealWidth
  <1>3. rate \in [1 .. Len(Registered) -> Nat]
    BY <1>1, SetsAssumption, Zenon
  <1> HIDE DEF DealWidth
  <1>4. QED
    BY <1>2, <1>3

\* Every step keeps the invariant.
LEMMA NextIInv ==
    ASSUME IInv, [Next]_vars
    PROVE  IInv'
  <1>0. Core /\ SteadySinks
    BY DEF IInv
  <1>1. ASSUME Core', \/ UNCHANGED <<steady, emitters>>
                      \/ ~steady /\ UNCHANGED steady
        PROVE  IInv'
    BY <1>0, <1>1 DEF IInv, SteadySinks
  <1>2. CASE SteadyTick
    <2>1. PICK answers \in {rate[DealWidth]} : Tick(answers, 8)
      BY <1>2 DEF SteadyTick
    <2>2. Len(emitters) > 1 => answers \in Nat
      BY <1>2, <2>1, SteadySample DEF SteadyTick
    <2>3. Core'
      BY <1>0, <2>1, <2>2, TickStep, Zenon
    <2>4. QED
      BY <1>1, <2>1, <2>3 DEF Tick, sinks, load
  <1>3. CASE ~steady /\ \E answers \in Samples, backlog \in {8 - 1, 8} : Tick(answers, backlog)
    <2>1. PICK answers \in Samples, backlog \in {8 - 1, 8} : Tick(answers, backlog)
      BY <1>3
    <2>2. answers \in Nat
      BY SetsAssumption, Zenon
    <2>3. Core'
      BY <1>0, <2>1, <2>2, TickStep, SMTT(30)
    <2>4. QED
      BY <1>1, <1>3, <2>1, <2>3 DEF Tick, load
  <1>4. CASE ~steady /\ \E e \in Emitters : AddEmitter(e) \/ RemoveEmitter(e)
    <2>1. Core'
      BY <1>0, <1>4, AddEmitterStep, RemoveEmitterStep
    <2>2. QED
      BY <1>1, <1>4, <2>1 DEF AddEmitter, RemoveEmitter, load
  <1>5. CASE ~steady /\ HotRestart
    <2>1. /\ UNCHANGED <<width, probe, baseRate, probing, dir, dwell, dwellTarget, ctlEnabled,
                         emitters, dispatchWidth, rr, steady, rate>>
          /\ stale' = {emitters[i] : i \in 1 .. Len(emitters)}
      BY <1>5 DEF HotRestart, controller, load
    <2>2. stale' \in SUBSET Emitters
      BY <1>0, <2>1 DEF Core, TypeOK
    <2>3. TypeOK' /\ ProbeIsMeasured'
      BY <1>0, <2>1, <2>2 DEF Core, TypeOK, ProbeIsMeasured
    <2>4. StaleFirst'
      BY <1>0, <2>1 DEF Core, StaleFirst
    <2>5. QED
      BY <1>1, <1>5, <2>1, <2>3, <2>4 DEF Core
  <1>6. CASE Settle \/ (~steady /\ Deal)
    <2>1. /\ UNCHANGED <<width, probe, baseRate, probing, dir, dwell, dwellTarget, ctlEnabled,
                         emitters, stale, dispatchWidth>>
          /\ rr' \in Nat /\ rate' \in Rates
      BY <1>0, <1>6 DEF Core, TypeOK, Settle, Deal, controller, sinks, load
    <2>2. steady' \in BOOLEAN /\ (steady' => emitters = Registered)
      <3>1. CASE Settle
        BY <3>1 DEF Settle
      <3>2. CASE ~steady /\ Deal
        <4>1. steady' = steady
          BY <3>2 DEF Deal, load
        <4>2. QED
          BY <1>0, <3>2, <4>1 DEF Core, TypeOK
      <3>3. QED
        BY <1>6, <3>1, <3>2
    <2>3. TypeOK'
      BY <1>0, <2>1, <2>2 DEF Core, TypeOK
    <2>4. ProbeIsMeasured' /\ StaleFirst'
      BY <1>0, <2>1 DEF Core, ProbeIsMeasured, StaleFirst
    <2>5. QED
      BY <2>1, <2>2, <2>3, <2>4 DEF IInv, Core, SteadySinks
  <1>7. CASE UNCHANGED vars
    <2>1. Core'
      BY <1>0, <1>7 DEF vars, Core, TypeOK, ProbeIsMeasured, StaleFirst
    <2>2. QED
      BY <1>1, <1>7, <2>1 DEF vars
  <1>8. QED
    BY <1>2, <1>3, <1>4, <1>5, <1>6, <1>7 DEF Next

\* The inductive invariant holds in every reachable state.
THEOREM Invariance == Spec => []IInv
  <1>1. IInv /\ [Next]_vars => IInv'
    BY NextIInv
  <1>2. QED
    BY InitIInv, <1>1, PTL DEF Spec

\* The controller's fields stay in range, and a probe is always judged against
\* a measured rate and differs from the committed width.
THEOREM ProbeHolds == Spec => [](TypeOK /\ ProbeIsMeasured)
  <1>1. IInv => TypeOK /\ ProbeIsMeasured
    BY DEF IInv, Core
  <1>2. QED
    BY Invariance, <1>1, PTL

\* Where nextEmitter deals to: one of the last DealWidth emitters.
LEMMA DealBounds ==
    ASSUME TypeOK, emitters # <<>>
    PROVE  /\ NextEmitter \in Len(emitters) - DealWidth + 1 .. Len(emitters)
           /\ DealWidth \in 1 .. Len(emitters)
  <1>1. Len(emitters) \in Nat \ {0} /\ dispatchWidth \in Nat /\ rr \in Nat
    BY DEF TypeOK
  <1>2. DealWidth \in 1 .. Len(emitters)
    BY <1>1 DEF DealWidth
  <1>3. rr % DealWidth \in 0 .. DealWidth - 1
    BY <1>1, <1>2
  <1>4. QED
    BY <1>1, <1>2, <1>3 DEF NextEmitter

\* However the emitters change under a published width, nextEmitter indexes
\* one that is registered.
THEOREM DealInRangeHolds == Spec => []DealInRange
  <1>1. IInv => DealInRange
    <2> SUFFICES ASSUME IInv, emitters # <<>> PROVE NextEmitter \in 1 .. Len(emitters)
      BY DEF DealInRange
    <2>1. TypeOK /\ Len(emitters) \in Nat
      BY DEF IInv, Core, TypeOK
    <2>2. QED
      BY <2>1, DealBounds
  <1>2. QED
    BY Invariance, <1>1, PTL

\* After any number of hot restarts, a deal no wider than the isolates
\* registered since reaches only live ones.
THEOREM NoStaleDealHolds == Spec => []NoStaleDeal
  <1>1. IInv => NoStaleDeal
    <2> SUFFICES ASSUME IInv, emitters # <<>>, NEW i \in Live,
                        Len(emitters) - DealWidth + 1 >= i
                 PROVE  NextEmitter \in Live
      BY DEF NoStaleDeal
    <2>1. TypeOK /\ StaleFirst /\ Len(emitters) \in Nat
      BY DEF IInv, Core, TypeOK
    <2>2. /\ NextEmitter \in Len(emitters) - DealWidth + 1 .. Len(emitters)
          /\ DealWidth \in 1 .. Len(emitters)
      BY <2>1, DealBounds
    <2>3. i \in 1 .. Len(emitters) /\ emitters[i] \notin stale
      BY DEF Live
    <2>4. NextEmitter \in 1 .. Len(emitters) /\ (i < NextEmitter \/ i = NextEmitter)
      BY <2>1, <2>2, <2>3
    <2>5. emitters[NextEmitter] \notin stale
      BY <2>1, <2>3, <2>4 DEF StaleFirst
    <2>6. QED
      BY <2>4, <2>5 DEF Live
  <1>2. QED
    BY Invariance, <1>1, PTL

\* However isolates come and go and whatever the load does, deals are in range
\* and reach live isolates where the width leaves room for it, and every probe
\* has a measured rate to be judged against.
THEOREM DealsAreLiveHolds == Spec => []DealsAreLive
  <1>1. TypeOK /\ ProbeIsMeasured /\ DealInRange /\ NoStaleDeal => DealsAreLive
    BY DEF DealsAreLive
  <1>2. QED
    BY <1>1, ProbeHolds, DealInRangeHolds, NoStaleDealHolds, PTL
=============================================================================
