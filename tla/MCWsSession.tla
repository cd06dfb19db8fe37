---------------------------- MODULE MCWsSession -----------------------------
(***************************************************************************)
(* WsSession for TLC, with the history its property about order needs:      *)
(* whether a message beat the head of a session with middleware.            *)
(***************************************************************************)
EXTENDS WsSession

VARIABLE beaten

SomeFrames == {"text", "first", "last", "ping", "close", "unparsed", "badDeflated"}

MCInit == Init /\ beaten = FALSE
MCNext == Next /\ beaten' = (beaten \/ (gated /\ parked' # <<>>))
MCSpec == MCInit /\ [][MCNext]_<<vars, beaten>> /\ Fairness

\* Messages reach the handler's stream in the order they were sent, none
\* missing before one that arrived (_runWs: "in arrival order"), unless one
\* beat the open of a session whose middleware takes time: what arrives
\* meanwhile is then delivered before what is parked.
InArrivalOrder == ~beaten => lastAdded = added

\* The handler's stream is what the peer sent, in order, with the close last.
MessagesInOrder == InArrivalOrder /\ CloseIsReportedLast
=============================================================================
