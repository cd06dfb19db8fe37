------------------------- MODULE DispatchController -------------------------
(***************************************************************************)
(* Which isolate gets the next request: the emitters the isolates register  *)
(* (UvReactor::addEmitter, removeEmitter), the hill climb that picks how    *)
(* many of them to deal across (DispatchController::tick, run by the sweep  *)
(* of loop 0), and the deal itself (nextEmitter).                           *)
(*                                                                         *)
(* emitterMutex_ makes each operation on the emitters and the published     *)
(* width one step.                                                          *)
(***************************************************************************)
EXTENDS Integers, Sequences

CONSTANTS
    Emitters,       \* the isolates' sinks
    Registered,     \* the ones registered when the server starts, in order
    Rates,          \* steady workloads: answers per tick at each width
    Samples,        \* answers a tick may see while the load is not steady
    Pins,           \* widths NITRO_DISPATCH may pin, disabling the controller
    MaxDeals        \* bound on emitterRr_

ASSUME SetsAssumption ==
    /\ Registered \in Seq(Emitters)
    /\ \A i, j \in 1 .. Len(Registered) : Registered[i] = Registered[j] => i = j
    /\ Rates \subseteq [1 .. Len(Registered) -> Nat] /\ Rates # {}
    /\ Samples \subseteq Nat /\ Pins \subseteq Nat
ASSUME BoundsAssumption == MaxDeals \in Nat

VARIABLES
    width, probe, baseRate, probing, dir, dwell, dwellTarget,   \* the controller's
    ctlEnabled,     \* whether the controller sets the width
    emitters,       \* emitters_, in order of registration
    stale,          \* those whose isolate a hot restart has replaced
    dispatchWidth,  \* the width published
    rr,             \* emitterRr_
    steady, rate    \* whether the load has become steady, and which it is

controller == <<width, probe, baseRate, probing, dir, dwell, dwellTarget>>
sinks == <<emitters, stale>>
load == <<steady, rate>>
vars == <<width, probe, baseRate, probing, dir, dwell, dwellTarget, ctlEnabled, emitters,
          stale, dispatchWidth, rr, steady, rate>>

kSaturatedBacklog == 8
kDwellMin == 4
kDwellMax == 50

TypeOK ==
    /\ width \in Nat \ {0} /\ probe \in Nat \ {0}
    /\ baseRate \in Nat \cup {-1}
    /\ probing \in BOOLEAN
    /\ dir \in {1, -1}
    /\ dwell \in 0 .. kDwellMax - 1
    /\ dwellTarget \in kDwellMin .. kDwellMax
    /\ ctlEnabled \in BOOLEAN
    /\ emitters \in Seq(Emitters)
    /\ stale \in SUBSET Emitters
    /\ dispatchWidth \in Nat
    /\ rr \in Nat
    /\ steady \in BOOLEAN
    /\ rate \in Rates

\* start(): the controller starts concentrated, unless a width is pinned.
Init ==
    /\ width = 1 /\ probe = 1
    /\ baseRate = -1
    /\ probing = FALSE
    /\ dir = 1
    /\ dwell = 0 /\ dwellTarget = kDwellMin
    /\ \/ ctlEnabled = TRUE /\ dispatchWidth = 1
       \/ ctlEnabled = FALSE /\ dispatchWidth \in Pins
    /\ emitters = Registered
    /\ stale = {}
    /\ rr = 0
    /\ steady = FALSE
    /\ rate = CHOOSE r \in Rates : TRUE     \* set by Settle

-----------------------------------------------------------------------------
(* DispatchController.                                                      *)

Least(a, b) == IF a <= b THEN a ELSE b
Most(a, b) == IF a >= b THEN a ELSE b

\* step: double up to the isolate count, or halve down to one.
Step(w, d, maxWidth) == IF d > 0 THEN Least(maxWidth, w * 2) ELSE Most(1, w \div 2)

\* answers > base * kMargin, with kMargin = 1.05.
Beats(answers, base) == 20 * answers > 21 * base

\* reset: not backed up, nothing to parallelize.
Reset ==
    /\ width' = 1 /\ probe' = 1
    /\ baseRate' = -1
    /\ probing' = FALSE
    /\ dir' = 1
    /\ dwell' = 0 /\ dwellTarget' = kDwellMin
    /\ dispatchWidth' = 1

\* Settled: observe this width for a while, then try a step away from it,
\* turning round at the bounds.
Observe(answers, maxWidth) ==
    LET heading == IF dir > 0 /\ width >= maxWidth THEN -1
                   ELSE IF dir < 0 /\ width <= 1 THEN 1 ELSE dir
        next == Step(width, heading, maxWidth)
    IN  /\ baseRate' = answers
        /\ UNCHANGED <<width, dwellTarget>>
        /\ \/ /\ dwell + 1 < dwellTarget
              /\ dwell' = dwell + 1
              /\ dispatchWidth' = width
              /\ UNCHANGED <<probe, probing, dir>>
           \/ /\ dwell + 1 >= dwellTarget
              /\ dwell' = 0
              /\ dir' = heading
              /\ probing' = (next # width)
              /\ probe' = IF next # width THEN next ELSE probe
              /\ dispatchWidth' = next

\* The step helped: commit to it, and try the next one in the same direction.
Commit(answers, maxWidth) ==
    LET next == Step(probe, dir, maxWidth)
    IN  /\ width' = probe
        /\ baseRate' = answers
        /\ dwellTarget' = kDwellMin
        /\ probing' = (next # probe)
        /\ probe' = next
        /\ dispatchWidth' = next
        /\ UNCHANGED <<dir, dwell>>

\* Slip: a step that did not help is kept.
RevertStays ==
    /\ probing' = FALSE
    /\ dir' = -dir
    /\ dwellTarget' = Least(kDwellMax, 2 * dwellTarget)
    /\ width' = probe
    /\ dispatchWidth' = probe
    /\ UNCHANGED <<probe, baseRate, dwell>>

\* The step did not help: back to the committed width, turn round, and wait
\* longer before the next probe.
Revert ==
    /\ probing' = FALSE
    /\ dir' = -dir
    /\ dwellTarget' = Least(kDwellMax, 2 * dwellTarget)
    /\ dispatchWidth' = width
    /\ UNCHANGED <<width, probe, baseRate, dwell>>

\* runDispatchController, once per sweep: sample, tick, publish.
Tick(answers, backlog) ==
    /\ ctlEnabled
    /\ LET maxWidth == Len(emitters) IN
       \/ maxWidth <= 1 /\ dispatchWidth' = 1 /\ UNCHANGED controller
       \/ maxWidth > 1 /\ backlog < kSaturatedBacklog /\ Reset
       \/ /\ maxWidth > 1 /\ backlog >= kSaturatedBacklog
          /\ \/ ~probing /\ Observe(answers, maxWidth)
             \/ probing /\ Beats(answers, baseRate) /\ Commit(answers, maxWidth)
             \/ probing /\ ~Beats(answers, baseRate) /\ Revert
    /\ UNCHANGED <<ctlEnabled, sinks, rr, load>>

-----------------------------------------------------------------------------
(* The emitters.                                                            *)

\* addEmitter: a new isolate's sink goes to the back.
AddEmitter(e) ==
    /\ \A i \in 1 .. Len(emitters) : emitters[i] # e
    /\ emitters' = Append(emitters, e)
    /\ stale' = stale \ {e}
    /\ UNCHANGED <<controller, ctlEnabled, dispatchWidth, rr, load>>

\* removeEmitter: a sink is detached, or its bridge finalized.
RemoveEmitter(e) ==
    /\ \E i \in 1 .. Len(emitters) :
          /\ emitters[i] = e
          /\ emitters' = [j \in 1 .. Len(emitters) - 1 |->
                            IF j < i THEN emitters[j] ELSE emitters[j + 1]]
    /\ stale' = stale \ {e}
    /\ UNCHANGED <<controller, ctlEnabled, dispatchWidth, rr, load>>

\* A hot restart: the isolates are gone, their sinks still registered.
HotRestart ==
    /\ stale' = {emitters[i] : i \in 1 .. Len(emitters)}
    /\ UNCHANGED <<controller, ctlEnabled, emitters, dispatchWidth, rr, load>>

\* The width nextEmitter deals across.
DealWidth ==
    IF dispatchWidth = 0 \/ dispatchWidth > Len(emitters)
    THEN Len(emitters) ELSE dispatchWidth

\* Slip: the deal is across the first emitters registered.
NextFromFront == 1 + (rr % DealWidth)

\* nextEmitter: the position dealt to, among the last DealWidth of them.
NextEmitter == Len(emitters) - DealWidth + 1 + (rr % DealWidth)

\* A request is dealt; without emitters none is, and the counter stays.
Deal ==
    /\ emitters # <<>>
    /\ rr < MaxDeals
    /\ rr' = rr + 1
    /\ UNCHANGED <<controller, ctlEnabled, sinks, dispatchWidth, load>>

\* The load becomes steady: the isolates the server started with are there,
\* and saturated.
Settle ==
    /\ ~steady /\ ctlEnabled
    /\ emitters = Registered /\ stale = {} /\ rr = 0
    /\ steady' = TRUE
    /\ rate' \in Rates
    /\ UNCHANGED <<controller, ctlEnabled, sinks, dispatchWidth, rr>>

\* Saturated, a tick sees what the workload answers at the width in force.
SteadyTick ==
    /\ steady
    /\ \E answers \in {rate[DealWidth]} : Tick(answers, kSaturatedBacklog)

Next ==
    \/ SteadyTick
    \/ Settle
    \/ /\ ~steady
       /\ \/ \E answers \in Samples, backlog \in {kSaturatedBacklog - 1, kSaturatedBacklog} :
                 Tick(answers, backlog)
          \/ \E e \in Emitters : AddEmitter(e) \/ RemoveEmitter(e)
          \/ HotRestart
          \/ Deal

Spec == Init /\ [][Next]_vars

\* The sweep timer repeats.
FairSpec == Spec /\ WF_vars(SteadyTick)

-----------------------------------------------------------------------------
(* Properties.                                                              *)

\* nextEmitter indexes an emitter that is registered, whatever happened to
\* the emitters since the width was published.
DealInRange == emitters # <<>> => NextEmitter \in 1 .. Len(emitters)

\* A probe is judged against a rate that was measured, and differs from the
\* committed width it is a step from.
ProbeIsMeasured == probing => baseRate >= 0 /\ probe # width

Live == {i \in 1 .. Len(emitters) : emitters[i] \notin stale}

\* After a hot restart, as long as no more emitters are dealt to than have
\* registered since, no request goes to an isolate that is gone (nextEmitter:
\* "Selecting from the back keeps the live sink").
NoStaleDeal ==
    emitters # <<>> /\ (\E i \in Live : Len(emitters) - DealWidth + 1 >= i)
        => NextEmitter \in Live

\* Neither neighbour of the committed width would beat it.
LocallyOptimal ==
    \A w \in {Step(width, 1, Len(emitters)), Step(width, -1, Len(emitters))} :
        ~Beats(rate[w], rate[width])

\* Once the load is steady, and whatever state the load before it left the
\* controller in - a probe under way, a long dwell, a width above the isolate
\* count - the controller ends at a committed width that no single step would
\* improve by the margin (dispatch_controller_test.cpp: light, CPU-bound,
\* peaked and shifting loads).
FindsOptimum == <>[](steady => LocallyOptimal)

\* The deal is to a registered emitter, and to one whose isolate lives as long
\* as the width leaves room for it; no probe starts without a measured rate.
DealsAreLive == TypeOK /\ DealInRange /\ ProbeIsMeasured /\ NoStaleDeal
=============================================================================
