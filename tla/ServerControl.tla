--------------------------- MODULE ServerControl ---------------------------
(***************************************************************************)
(* How the main isolate of a server keeps its isolates in step: reload,    *)
(* aggregatedMetrics and close of NitroServer, the control channel of a    *)
(* helper (_Helper, _helperMain), and ServerRunner.reload, which every     *)
(* isolate runs over its own handlers and over the one routing table all   *)
(* of them share in the engine.                                            *)
(*                                                                         *)
(* A setup is application code: it registers its routes and its middleware *)
(* one by one, awaits in between, and may throw.  A step ends where the    *)
(* code awaits.                                                            *)
(***************************************************************************)
EXTENDS Naturals, Sequences, FiniteSets, FiniteSetsExt

CONSTANTS Helpers,      \* 1 .. n, in the order they are spawned
          RouteKeys,    \* method and pattern
          Setups,       \* the setups the application has
          Does,         \* what each does: a sequence of routes and of "use"
          FirstSetup,   \* the one the server was bound with
          Ops,          \* the calls the application makes
          Plans,        \* what they may be: [helpers, asks], asks[o] a setup, "metrics", "close" or "none"
          Nothing

Main == 0
Runners == {Main} \cup Helpers

VARIABLES
    plan,          \* the plan followed
    op,            \* where it stands: [at, left (helpers still to be asked)]
    helperList,    \* _helpers
    \* of a runner
    handlers,      \* _routes: [setup, chain], the chain being the composed middleware
    surface,       \* _middlewares and the fallbacks: [chain, fallback]
    composed,      \* _compose
    touched,       \* _reloadTouched, or Nothing
    runs,          \* the reloads under way: [on, by, setup, todo, old, saved]
    \* of the engine
    engineRoutes,  \* the keys registered
    rotation,      \* the isolates dealt to
    \* of a helper
    inbox,         \* its control port
    replies,       \* its reply port: the operations it has answered
    portOpen,      \* whether main has not closed that
    waiting,       \* the operation in _queue.moveNext
    alive, closing,
    isolate,       \* "idle", "setting" (in a reload) or "gone"
    \* history
    spoiled,       \* the windows met: see RoutesAgree
    mixed          \* operations that took another's reply

runnerVars == <<handlers, surface, composed, touched, engineRoutes>>
channelVars == <<inbox, replies, portOpen, waiting, alive, closing, rotation>>
controlVars == <<plan, op, helperList, runnerVars, runs, channelVars, isolate, spoiled, mixed>>

RoutesOf(s) == {Does[s][i] : i \in DOMAIN Does[s]} \ {"use"}
Asked(o) == plan.asks[o]
Bare == [chain |-> <<>>, fallback |-> Nothing]
Full(s) == [chain |-> <<s>>, fallback |-> s]
Registered(r) == {k \in RouteKeys : handlers[r][k] # Nothing}
Active(r) == {x \in runs : x.on = r}

ControlTypeOK ==
  /\ op \in [Ops -> [at : {"new", "setup", "closing", "wait", "done", "failed"}, left : SUBSET Helpers]]
  /\ helperList \subseteq Helpers /\ engineRoutes \subseteq RouteKeys /\ rotation \subseteq Runners
  /\ \A r \in Runners : touched[r] = Nothing \/ touched[r] \subseteq RouteKeys
  /\ waiting \in [Helpers -> Ops \cup {Nothing}]
  /\ alive \in [Helpers -> BOOLEAN] /\ closing \in [Helpers -> BOOLEAN] /\ portOpen \in [Helpers -> BOOLEAN]
  /\ isolate \in [Helpers -> {"idle", "setting", "gone"}]
  /\ mixed \subseteq Ops

\* bind has returned: every isolate has run the setup and listens.
ControlInit ==
  /\ plan \in Plans
  /\ op = [o \in Ops |-> [at |-> "new", left |-> {}]] /\ helperList = plan.helpers
  /\ handlers = [r \in Runners |-> [k \in RouteKeys |->
                   IF k \in RoutesOf(FirstSetup) THEN [setup |-> FirstSetup, chain |-> <<FirstSetup>>] ELSE Nothing]]
  /\ surface = [r \in Runners |-> Full(FirstSetup)] /\ composed = [r \in Runners |-> <<FirstSetup>>]
  /\ touched = [r \in Runners |-> Nothing] /\ runs = {}
  /\ engineRoutes = RoutesOf(FirstSetup) /\ rotation = {Main} \cup plan.helpers
  /\ inbox = [h \in Helpers |-> <<>>] /\ replies = [h \in Helpers |-> <<>>]
  /\ portOpen = [h \in Helpers |-> TRUE] /\ waiting = [h \in Helpers |-> Nothing]
  /\ alive = [h \in Helpers |-> h \in plan.helpers] /\ closing = [h \in Helpers |-> FALSE]
  /\ isolate = [h \in Helpers |-> IF h \in plan.helpers THEN "idle" ELSE "gone"]
  /\ spoiled = {} /\ mixed = {}

(***************************************************************************)
(* ServerRunner.reload, on the main isolate for an operation or on a       *)
(* helper.                                                                 *)
(***************************************************************************)
\* Slip: the middleware of before stays.
ReloadStartsOver(r, o, s) ==
  /\ runs' = runs \cup {[on |-> r, by |-> o, setup |-> s, todo |-> Does[s],
                         old |-> Registered(r), saved |-> surface[r]]}
  /\ touched' = [touched EXCEPT ![r] = {}]
  /\ UNCHANGED <<surface, handlers, composed, engineRoutes>>

ReloadStarts(r, o, s) ==
  /\ runs' = runs \cup {[on |-> r, by |-> o, setup |-> s, todo |-> Does[s],
                         old |-> Registered(r), saved |-> surface[r]]}
  /\ surface' = [surface EXCEPT ![r] = Bare]
  /\ touched' = [touched EXCEPT ![r] = {}]
  /\ UNCHANGED <<handlers, composed, engineRoutes>>

\* A killed helper may run on for a moment.
Spoils(r) == IF r \in Helpers /\ ~alive[r] THEN {"doomed"} ELSE {}

\* addRoute, addWsRoute, addStaticRoute: in place where the key is registered.
SetupRegisters(x) ==
  LET r == x.on
      k == Head(x.todo)
  IN /\ x.todo # <<>> /\ k # "use"
     /\ runs' = (runs \ {x}) \cup {[x EXCEPT !.todo = Tail(@)]}
     /\ engineRoutes' = engineRoutes \cup {k}
     /\ handlers' = [handlers EXCEPT ![r][k] = [setup |-> x.setup, chain |-> composed[r]]]
     /\ touched' = [touched EXCEPT ![r] = IF @ = Nothing THEN Nothing ELSE @ \cup {k}]
     /\ spoiled' = spoiled \cup Spoils(r)
     /\ UNCHANGED <<plan, op, helperList, surface, composed, channelVars, isolate, mixed>>

\* _recompose, over the handlers h.
Recompose(r, h, chain) ==
  /\ composed' = [composed EXCEPT ![r] = chain]
  /\ handlers' = [handlers EXCEPT ![r] =
                    [k \in RouteKeys |-> IF h[k] = Nothing THEN Nothing ELSE [h[k] EXCEPT !.chain = chain]]]

\* use, and the fallback handlers.
SetupUses(x) ==
  LET r == x.on
      chain == Append(surface[r].chain, x.setup)
  IN /\ x.todo # <<>> /\ Head(x.todo) = "use"
     /\ runs' = (runs \ {x}) \cup {[x EXCEPT !.todo = Tail(@)]}
     /\ surface' = [surface EXCEPT ![r] = [chain |-> chain, fallback |-> x.setup]]
     /\ Recompose(r, handlers[r], chain)
     /\ UNCHANGED <<plan, op, helperList, touched, engineRoutes, channelVars, isolate, spoiled, mixed>>

\* _unregisterKey for each key, then _recompose; _reloadTouched is over.
Settles(r, keys, chain) ==
  /\ touched' = [touched EXCEPT ![r] = Nothing]
  /\ engineRoutes' = engineRoutes \ keys
  /\ Recompose(r, [k \in RouteKeys |-> IF k \in keys THEN Nothing ELSE handlers[r][k]], chain)

Touched(r) == IF touched[r] = Nothing THEN {} ELSE touched[r]

\* Slip: what the setup registered again is dropped too.
DropsAll(x) == x.old
\* The routes of before that the setup did not register again.
Dropped(x) == x.old \ Touched(x.on)

\* The routes a setup that threw had added.
Undone(x) == Touched(x.on) \ x.old

(***************************************************************************)
(* The main isolate and the control channel.                               *)
(***************************************************************************)
\* The loop over the helpers, from left on: the next live one is sent the
\* request and its reply awaited.  A queue that is awaited already throws.
Asks(o, left, live, waits) ==
  LET next == {h \in left : live[h]}
      h == Min(next)
  IN IF next = {}
     THEN /\ op' = [op EXCEPT ![o] = [at |-> "done", left |-> {}]]
          /\ waiting' = waits /\ UNCHANGED <<inbox, closing, spoiled>>
     ELSE /\ inbox' = [inbox EXCEPT ![h] = Append(@, o)]
          /\ closing' = [closing EXCEPT ![h] = @ \/ Asked(o) = "close"]
          /\ IF waits[h] = Nothing
             THEN /\ op' = [op EXCEPT ![o] = [at |-> "wait", left |-> {g \in left : g > h}]]
                  /\ waiting' = [waits EXCEPT ![h] = o] /\ UNCHANGED spoiled
             ELSE /\ op' = [op EXCEPT ![o] = [at |-> "failed", left |-> {}]]
                  /\ waiting' = waits /\ spoiled' = spoiled \cup {"clash"}

\* reload: the main isolate first.
ReloadCalled(o) ==
  LET others == {p \in Ops \ {o} : Asked(p) \in Setups /\ op[p].at \notin {"new", "done", "failed"}}
  IN /\ Asked(o) \in Setups /\ op[o].at = "new"
     /\ ReloadStarts(Main, o, Asked(o))
     /\ op' = [op EXCEPT ![o].at = "setup"]
     /\ spoiled' = spoiled \cup (IF others # {} THEN {"behind"} ELSE {})
                           \cup (IF Active(Main) # {} THEN {"twice"} ELSE {})
     /\ UNCHANGED <<plan, helperList, channelVars, isolate, mixed>>

MainCommits(x) ==
  /\ x.on = Main /\ x.todo = <<>>
  /\ runs' = runs \ {x}
  /\ Settles(Main, Dropped(x), surface[Main].chain)
  /\ Asks(x.by, helperList, alive, waiting)
  /\ UNCHANGED <<plan, helperList, surface, replies, portOpen, alive, rotation, isolate, mixed>>

\* The setup throws: the helpers are not told.
MainRollsBack(x) ==
  /\ x.on = Main
  /\ runs' = runs \ {x}
  /\ surface' = [surface EXCEPT ![Main] = x.saved]
  /\ Settles(Main, Undone(x), x.saved.chain)
  /\ op' = [op EXCEPT ![x.by] = [at |-> "failed", left |-> {}]]
  /\ UNCHANGED <<plan, helperList, channelVars, isolate, spoiled, mixed>>

MetricsCalled(o) ==
  /\ Asked(o) = "metrics" /\ op[o].at = "new"
  /\ Asks(o, helperList, alive, waiting)
  /\ UNCHANGED <<plan, helperList, runnerVars, runs, replies, portOpen, alive, rotation, isolate, mixed>>

\* close: the drain and the main runner's close, then the helpers.
CloseCalled(o) ==
  /\ Asked(o) = "close" /\ op[o].at = "new"
  /\ op' = [op EXCEPT ![o].at = "closing"]
  /\ UNCHANGED <<plan, helperList, runnerVars, runs, channelVars, isolate, spoiled, mixed>>

ClosesHelpers(o) ==
  /\ op[o].at = "closing"
  /\ helperList' = {}
  /\ Asks(o, helperList, alive, waiting)
  /\ UNCHANGED <<plan, runnerVars, runs, replies, portOpen, alive, rotation, isolate, mixed>>

\* _reply is answered.  close shuts the reply port.
Answered(h) ==
  LET o == waiting[h]
  IN /\ o # Nothing /\ replies[h] # <<>>
     /\ mixed' = mixed \cup (IF Head(replies[h]) # o THEN {o} ELSE {})
     /\ replies' = [replies EXCEPT ![h] = IF Asked(o) = "close" THEN <<>> ELSE Tail(@)]
     /\ portOpen' = [portOpen EXCEPT ![h] = @ /\ Asked(o) # "close"]
     /\ Asks(o, op[o].left, alive, [waiting EXCEPT ![h] = Nothing])
     /\ UNCHANGED <<plan, helperList, runnerVars, runs, alive, rotation, isolate>>

\* _die: out of the rotation, then killed.
Dies(h) ==
  /\ alive' = [alive EXCEPT ![h] = FALSE]
  /\ rotation' = IF alive[h] THEN rotation \ {h} ELSE rotation
  /\ portOpen' = [portOpen EXCEPT ![h] = FALSE] /\ replies' = [replies EXCEPT ![h] = <<>>]

\* Slip: the wait has no timeout, only a closed port ends it.
MissedPatiently(h) ==
  LET o == waiting[h]
  IN /\ o # Nothing /\ replies[h] = <<>> /\ ~portOpen[h]
     /\ Dies(h)
     /\ Asks(o, op[o].left, alive', [waiting EXCEPT ![h] = Nothing])
     /\ UNCHANGED <<plan, helperList, runnerVars, runs, isolate, mixed>>

\* _reply is not: helperTimeout passes, be it that the reply is there by now, or
\* the port was closed.
Missed(h) ==
  LET o == waiting[h]
  IN /\ o # Nothing
     /\ Dies(h)
     /\ Asks(o, op[o].left, alive', [waiting EXCEPT ![h] = Nothing])
     /\ UNCHANGED <<plan, helperList, runnerVars, runs, isolate, mixed>>

\* The listener of the exit port.
ExitSeen(h) ==
  /\ isolate[h] = "gone" /\ alive[h] /\ ~closing[h]
  /\ Dies(h)
  /\ UNCHANGED <<plan, op, helperList, runnerVars, runs, inbox, waiting, closing, isolate, spoiled, mixed>>

(***************************************************************************)
(* A helper: _helperMain.                                                  *)
(***************************************************************************)
Sends(h, o) == replies' = IF portOpen[h] THEN [replies EXCEPT ![h] = Append(@, o)] ELSE replies

HelperTakes(h) ==
  LET o == Head(inbox[h])
  IN /\ isolate[h] = "idle" /\ inbox[h] # <<>>
     /\ inbox' = [inbox EXCEPT ![h] = Tail(@)]
     /\ IF Asked(o) \in Setups
        THEN /\ ReloadStarts(h, o, Asked(o))
             /\ isolate' = [isolate EXCEPT ![h] = "setting"] /\ UNCHANGED replies
        ELSE /\ Sends(h, o)   \* metricsWire, or the runner closed
             /\ isolate' = [isolate EXCEPT ![h] = IF Asked(o) = "close" THEN "gone" ELSE @]
             /\ UNCHANGED <<runnerVars, runs>>
     /\ UNCHANGED <<plan, op, helperList, portOpen, waiting, alive, closing, rotation, spoiled, mixed>>

HelperCommits(x) ==
  LET h == x.on
  IN /\ h \in Helpers /\ x.todo = <<>>
     /\ runs' = runs \ {x}
     /\ Settles(h, Dropped(x), surface[h].chain)
     /\ Sends(h, x.by)
     /\ isolate' = [isolate EXCEPT ![h] = "idle"]
     /\ spoiled' = spoiled \cup Spoils(h)
     /\ UNCHANGED <<plan, op, helperList, surface, inbox, portOpen, waiting, alive, closing, rotation, mixed>>

\* The error leaves _helperMain and ends the isolate.
HelperRollsBack(x) ==
  LET h == x.on
  IN /\ h \in Helpers
     /\ runs' = runs \ {x}
     /\ surface' = [surface EXCEPT ![h] = x.saved]
     /\ Settles(h, Undone(x), x.saved.chain)
     /\ isolate' = [isolate EXCEPT ![h] = "gone"]
     /\ spoiled' = spoiled \cup (IF Undone(x) # {} THEN {"undone"} ELSE {})
     /\ UNCHANGED <<plan, op, helperList, channelVars, mixed>>

\* It is killed, exits, or meets a fatal error.
HelperGone(h) ==
  /\ isolate[h] # "gone"
  /\ isolate' = [isolate EXCEPT ![h] = "gone"]
  /\ runs' = {x \in runs : x.on # h}
  /\ UNCHANGED <<plan, op, helperList, runnerVars, channelVars, spoiled, mixed>>

SetupStep(x) == SetupRegisters(x) \/ SetupUses(x) \/ MainCommits(x)

ControlNext ==
  \/ \E o \in Ops : ReloadCalled(o) \/ MetricsCalled(o) \/ CloseCalled(o) \/ ClosesHelpers(o)
  \/ \E x \in runs : SetupStep(x) \/ MainRollsBack(x) \/ HelperCommits(x) \/ HelperRollsBack(x)
  \/ \E h \in Helpers : Answered(h) \/ Missed(h) \/ ExitSeen(h) \/ HelperTakes(h) \/ HelperGone(h)

\* The main isolate runs: its setup returns or throws, replies and timeouts are
\* seen, its runner closes.  Nothing is asked of helpers.
ControlFairness ==
  /\ WF_controlVars(\E x \in runs : x.on = Main /\ (SetupStep(x) \/ MainRollsBack(x)))
  /\ \A h \in Helpers : WF_controlVars(Answered(h) \/ Missed(h)) /\ WF_controlVars(ExitSeen(h))
  /\ WF_controlVars(\E o \in Ops : ClosesHelpers(o))
ControlSpec == ControlInit /\ [][ControlNext]_controlVars /\ ControlFairness

(***************************************************************************)
(* Properties.                                                             *)
(***************************************************************************)
Quiet == /\ runs = {} /\ \A o \in Ops : op[o].at \in {"new", "done", "failed"}
         /\ \A h \in Helpers : isolate[h] # "gone" => inbox[h] = <<>>
Up(h) == alive[h] /\ isolate[h] # "gone"

\* When no call is under way every isolate has a handler for exactly the routes
\* the engine matches, each under the whole middleware of one setup, whatever
\* setups threw on the main isolate, whichever helpers died or were killed, and
\* whatever metrics were collected meanwhile.  Four windows are left open: a
\* reload behind another ("behind"), a helper whose setup throws and undoes what
\* main has registered in the engine ("undone"), a killed helper that runs on
\* ("doomed"), and two calls waiting for one helper ("clash").  Of them, replies
\* are taken by another call only after a clash (reload, _reply).
RoutesAgree ==
  /\ ControlTypeOK
  /\ spoiled = {} /\ Quiet => \A r \in {Main} \cup {h \in Helpers : Up(h)} :
       /\ Registered(r) = engineRoutes
       /\ \E s \in Setups : surface[r] = Full(s) /\ \A k \in Registered(r) : handlers[r][k].chain = <<s>>
  /\ "clash" \notin spoiled => mixed = {}

\* A route that every setup has is never missing from the engine, not for a
\* moment and whatever throws, dies or is killed; only two reloads running on one
\* isolate at once can lose it, as they share _reloadTouched (reload: "a bad
\* reload never leaves the server without routes").
NeverWithoutRoutes == \A k \in RouteKeys : (\A s \in Setups : k \in RoutesOf(s)) => k \in engineRoutes
RoutesStay == "twice" \notin spoiled => NeverWithoutRoutes

\* "A wedged helper can never hang bind, reload, aggregatedMetrics or close":
\* every call that was made ends, and a helper that is gone is dealt nothing for
\* long, unless close has asked it to go.  (There are finitely many of either.)
Unfinished ==
  \/ \E o \in Ops : op[o].at \notin {"new", "done", "failed"}
  \/ \E h \in rotation \cap Helpers : isolate[h] = "gone" /\ ~closing[h]
CallsEnd == Unfinished ~> ~Unfinished
=============================================================================
