--------------------------- MODULE MCHttp2Session ---------------------------
(* Http2Session for TLC. *)
EXTENDS Http2Session

TwoStreams == 1 .. 2

Get(f, timed) == [found |-> f, cap |-> 0, length |-> -1, bodyless |-> TRUE, timed |-> timed]
Post(c, len) == [found |-> "route", cap |-> c, length |-> len, bodyless |-> FALSE, timed |-> TRUE]

\* Declared bodies that fit together and that do not, one over its route's
\* cap, one of unknown length under a cap and one without.
SomeHeads ==
    {Get("route", TRUE), Get("route", FALSE), Get("method", TRUE),
     Post(0, 1), Post(0, 2), Post(1, 2), Post(1, -1), Post(0, -1)}

OneLoop == {"loop 2"}
=============================================================================
