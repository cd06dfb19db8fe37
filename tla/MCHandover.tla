----------------------------- MODULE MCHandover -----------------------------
(***************************************************************************)
(* The two ways native memory is handed to Dart, side by side: the body of *)
(* a request (BodyDelivery) and coalesced stream items and batched results *)
(* (CompletionBatch).  They share nothing; a behaviour is one of the two.  *)
(* At rest neither has an enabled action that its fairness is about.       *)
(***************************************************************************)
EXTENDS MCBodyDelivery, MCCompletionBatch

VARIABLE handover    \* which of the two this behaviour is about

bodyVars == <<vars, late, posthumous, told>>

HandoverInit ==
  /\ handover \in {"body", "items"}
  /\ MCInit /\ (handover = "items" => route = CHOOSE r \in Routes : TRUE)
  /\ BatchInit /\ (handover = "body" => workload = CHOOSE w \in Workloads : w.posters \cap Calls = {})
HandoverNext ==
  \/ handover = "body" /\ MCNext /\ UNCHANGED <<handover, allBatchVars>>
  \/ handover = "items" /\ BatchNext /\ UNCHANGED <<handover, bodyVars>>
HandoverSpec ==
  HandoverInit /\ [][HandoverNext]_<<handover, bodyVars, allBatchVars>> /\ Fairness /\ BatchFairness
=============================================================================
