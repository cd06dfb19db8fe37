--------------------------- MODULE MCBodyDelivery ---------------------------
(***************************************************************************)
(* BodyDelivery for TLC, with the history its properties about the end of a *)
(* request need: which payloads were delivered after its completion, and    *)
(* how the engine retired it.                                               *)
(***************************************************************************)
EXTENDS BodyDelivery

VARIABLES
    late,       \* the payloads delivered after the request was completed
    posthumous, \* the payloads logged after the request was erased
    told        \* the events posted, and "tooLarge" for an aborted request

AllRoutes == {"stream", "whole"}
AllFaults == {"deadline", "disconnect", "oversize", "stalled upload", "idle answer"}

History ==
    /\ late' = IF chunks # <<>> /\ chunks' = Tail(chunks) /\ completed
                  /\ Head(chunks).kind # "end"
               THEN late \cup {Head(chunks).payload} ELSE late
    /\ posthumous' = IF tracked' # tracked /\ ~loc
                     THEN posthumous \cup {tracked'} ELSE posthumous
    /\ told' = told \cup events' \cup IF engine' = "abort" /\ loc THEN {"tooLarge"} ELSE {}

MCInit == Init /\ late = {} /\ posthumous = {} /\ told = {}
MCNext == Next /\ History
MCSpec == MCInit /\ [][MCNext]_<<vars, late, posthumous, told>> /\ Fairness

Over == engine = "over" /\ emitting = Nothing /\ ~loc
AllDelivered == chunks = <<>> /\ events = {} /\ head = "delivered" /\ handler # "completing"

\* Once a request is over on both sides and everything posted has been
\* delivered, its log has been reaped and its memory freed
\* (payloadLogCountForTesting: "erased once answered and fully acked").
AlwaysReaped == Over /\ AllDelivered /\ completed => ~live /\ held = {}

\* So it is when no payload but the first came after the completion, which
\* _onChunk acknowledges as payload number one, and none was logged once the
\* request was erased, which starts a log that nothing orphans.
LogReaped == late \subseteq {1} /\ posthumous = {} => AlwaysReaped

\* A request the engine has retired is released by the runner even when its
\* handler never returns (_onEvent: "so inFlight and readiness stay honest
\* even when the handler never returns").
AlwaysReleased == (entry # "none" /\ ~loc) ~> (entry = "none")

\* So it is when it was answered, missed its deadline or lost its client.
RunnerReleases ==
    (entry # "none" /\ ~loc /\ told \cap {"clientError", "tooLarge"} = {})
        ~> (entry = "none")
=============================================================================
