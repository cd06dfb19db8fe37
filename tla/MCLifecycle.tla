---------------------------- MODULE MCLifecycle ----------------------------
(***************************************************************************)
(* The lives of engines and the calls that keep a server's isolates in     *)
(* step, side by side: a behaviour is about one of the two, and the other  *)
(* stays where it starts, with nothing for its fairness to ask.            *)
(***************************************************************************)
EXTENDS MCEngineLifecycle, MCServerControl

VARIABLE side

LifecycleInit ==
  /\ side \in {"engine", "control"}
  /\ Init /\ (side = "control" => work = CHOOSE w \in Workloads : TRUE)
  /\ ControlInit /\ (side = "engine" => plan = CHOOSE p \in Plans : TRUE)
LifecycleNext ==
  \/ side = "engine" /\ Next /\ UNCHANGED <<side, controlVars>>
  \/ side = "control" /\ ControlNext /\ UNCHANGED <<side, vars>>
LifecycleSpec ==
  LifecycleInit /\ [][LifecycleNext]_<<side, vars, controlVars>> /\ Fairness /\ ControlFairness
=============================================================================
